---- MODULE Spec2Model ----
(***************************************************************************)
(* Parameter resolution and command flow of agentspace-agent-registrar.    *)
(*                                                                         *)
(* Three resolvers are modelled from their code:                           *)
(*   ConfigManager.get_parameter     (config/manager.py)                   *)
(*   as_registry_client.get_parameter (as_registry_client.py)              *)
(*   agent_engine_client.get_parameter (agent_engine_client.py)            *)
(* together with the two load_config functions, the verbs of the typer CLI *)
(* and of the two legacy clients, the service operations they call, and    *)
(* the rendering of a resolved configuration by format_json.               *)
(*                                                                         *)
(* Specifications: Spec (one get_parameter call), SpecVerb (one verb from  *)
(* its command line to its exit status), SpecSvc (one service operation    *)
(* against one answer of the backend), SpecBuild (a configuration builder  *)
(* followed by format_json and json.loads), SpecEngine (a sequence of      *)
(* initialize and operation calls on one deployment-registry service).     *)
(***************************************************************************)
EXTENDS Integers, Sequences, FiniteSets, TLC

VARIABLES
    \* ---- the process: its inputs and the resolver's state ----
    resolver,    \* which program runs: "ConfigManager", "registry_client", "engine_client"
    name,        \* the parameter name under resolution (specification Spec)
    cli_args,    \* ConfigManager._cli_args / the argparse namespace, as a dict
    fileState,   \* the config path: "missing", "malformed" (not JSON), "object"
    fileEntry,   \* what the JSON object holds for `name` (Absent, None or a string)
    environ,     \* os.environ, restricted to the variables the resolvers read
    fileData,    \* the JSON object of the config file, all fields (SpecVerb, SpecBuild)
    config,      \* ConfigManager._config / the dict load_config returned
    pc,          \* "start", "loaded", "done", "crashed"; "verb" while a verb runs
    call,        \* the policy arguments of the get_parameter call, and the line read
    result,      \* what the call returned or raised
    \* ---- one invocation of a verb (specification SpecVerb) ----
    verb,        \* which verb runs
    force,       \* --force (typer verbs only)
    todo,        \* the statements of the verb still to run
    resolved,    \* the parameters resolved so far: name -> value
    confirmed,   \* outcome of the confirmation: "unasked", "yes", "no", "abort"
    sdkInit,     \* AgentEngineService._initialized / _vertex_ai_initialized
    netCalls,    \* the outbound network calls issued, in order
    output,      \* the lines printed or logged, in order
    execResult,  \* what the service operation returned
    verbError,   \* the exception that ended the verb, NoError when none
    exitCode,    \* the process exit status, -1 while running
    \* ---- rendering of a resolved configuration (specification SpecBuild) ----
    rendered,    \* the text format_json produced
    parsed,      \* what json.loads made of that text
    \* ---- one deployment-registry service (specification SpecEngine) ----
    history      \* the calls made on the service and how each ended, in order

vars == <<resolver, name, cli_args, fileState, fileEntry, environ, fileData,
          config, pc, call, result, verb, force, todo, resolved, confirmed,
          sdkInit, netCalls, output, execResult, verbError, exitCode,
          rendered, parsed, history>>

inputVars == <<resolver, name, cli_args, fileState, fileEntry, environ, fileData>>
verbVars == <<verb, force, todo, resolved, confirmed, sdkInit, netCalls,
              output, execResult, verbError, exitCode, rendered, parsed, history>>

(***************************************************************************)
(* Python values.  A string is a sequence of symbols; " " is the only      *)
(* whitespace symbol.  None is Python's None; Absent stands for a key that *)
(* a mapping does not hold (it is never a value the program sees).         *)
(***************************************************************************)
None == [t |-> "None"]
Str(s) == [t |-> "str", s |-> s]
Absent == [t |-> "absent"]
EmptyDict == [k \in {} |-> None]

\* Python truthiness of an Optional[str]
Truthy(v) == v.t = "str" /\ v.s # <<>>

\* A dict with the same value under every key.
Const(keys, value) == [k \in keys |-> value]

\* {**d1, **d2}
Merge(d1, d2) ==
    [k \in DOMAIN d1 \cup DOMAIN d2 |-> IF k \in DOMAIN d2 THEN d2[k] ELSE d1[k]]

\* d[key] = value
With(d, key, value) ==
    [k \in DOMAIN d \cup {key} |-> IF k = key THEN value ELSE d[k]]

\* Largest number of blanks typed before and after an answer at a prompt.
MaxPad == 1

Pad(n) == [i \in 1..n |-> " "]

\* The lines a user may type at a prompt.
Answers == { Pad(i) \o core \o Pad(j) : i \in 0..MaxPad, j \in 0..MaxPad,
                                        core \in {<<>>, <<"w">>} }

RECURSIVE lstrip(_)
lstrip(s) == IF s # <<>> /\ Head(s) = " " THEN lstrip(Tail(s)) ELSE s

RECURSIVE rstrip(_)
rstrip(s) == IF s # <<>> /\ s[Len(s)] = " " THEN rstrip(SubSeq(s, 1, Len(s) - 1)) ELSE s

strip_identity(s) == s

\* str.strip()
strip(s) == rstrip(lstrip(s))

(***************************************************************************)
(* The parameter names of the model: an Optional field of GlobalConfig     *)
(* (also the one name the engine client looks up in the environment), the  *)
(* two str fields with a default, and a name GlobalConfig does not have.   *)
(***************************************************************************)
Names == {"project_id", "api_location", "re_location", "resource_name"}

\* GlobalConfig: every declared field.
GlobalConfigFields ==
    {"project_id", "app_id", "ars_display_name", "description", "tool_description",
     "adk_deployment_id", "auth_id", "icon_uri", "api_location", "re_location",
     "location", "re_resource_name", "re_resource_id", "re_display_name", "agent_id"}

\* The fields typed str (not Optional[str]).
GlobalConfigStrFields == {"api_location", "re_location"}

GLOBAL == Str(<<"global">>)

\* The Field(default=...) of each field.
FieldDefault(f) == IF f \in GlobalConfigStrFields THEN GLOBAL ELSE None

\* GlobalConfig(): every field at its default.
GlobalConfigDefaults == [f \in GlobalConfigFields |-> FieldDefault(f)]

\* GlobalConfig(**config_data) for a JSON object holding `entry` under `n`
\* (nothing when entry = Absent): unknown keys are ignored, null for a str
\* field fails validation.
GlobalConfigFrom(n, entry) ==
    IF entry = Absent \/ n \notin GlobalConfigFields
    THEN [ok |-> TRUE, obj |-> GlobalConfigDefaults]
    ELSE IF entry = None /\ n \in GlobalConfigStrFields
    THEN [ok |-> FALSE, obj |-> GlobalConfigDefaults]
    ELSE [ok |-> TRUE, obj |-> [GlobalConfigDefaults EXCEPT ![n] = entry]]

\* GlobalConfig(**config_data) for a JSON object `data` of strings and nulls:
\* one null under a str field fails the validation of the whole object.
GlobalConfig(data) ==
    IF \E f \in DOMAIN data \cap GlobalConfigStrFields : data[f] = None
    THEN [ok |-> FALSE, obj |-> GlobalConfigDefaults]
    ELSE [ok |-> TRUE,
          obj |-> [f \in GlobalConfigFields |->
                     IF f \in DOMAIN data THEN data[f] ELSE FieldDefault(f)]]

Loaded(data) == [loaded |-> TRUE, raised |-> FALSE, data |-> data]
LoadRaised == [loaded |-> FALSE, raised |-> TRUE, data |-> EmptyDict]
Unloaded == [loaded |-> FALSE, raised |-> FALSE, data |-> EmptyDict]

CM_load_config_no_except(cfg, fstate, n, entry) ==
    IF cfg.loaded THEN cfg
    ELSE IF fstate = "object" THEN Loaded(GlobalConfigFrom(n, entry).obj)
    ELSE IF fstate = "malformed" THEN LoadRaised
    ELSE Loaded(GlobalConfigDefaults)

\* ConfigManager.load_config
CM_load_config(cfg, fstate, n, entry) ==
    IF cfg.loaded THEN cfg                                  \* cached
    ELSE IF fstate = "missing" THEN Loaded(GlobalConfigDefaults)
    ELSE IF fstate = "malformed" THEN Loaded(GlobalConfigDefaults)  \* JSONDecodeError
    ELSE LET g == GlobalConfigFrom(n, entry)
         IN IF g.ok THEN Loaded(g.obj)
            ELSE Loaded(GlobalConfigDefaults)               \* except Exception

\* ConfigManager.load_config, for a file that holds the JSON object `data`
CM_load_file(cfg, fstate, data) ==
    IF cfg.loaded THEN cfg                                  \* cached
    ELSE IF fstate \in {"missing", "malformed"} THEN Loaded(GlobalConfigDefaults)
    ELSE LET g == GlobalConfig(data)
         IN IF g.ok THEN Loaded(g.obj)
            ELSE Loaded(GlobalConfigDefaults)               \* except Exception

\* as_registry_client.load_config
RC_load_config(fstate, n, entry) ==
    IF fstate = "missing" THEN Loaded(EmptyDict)
    ELSE IF fstate = "malformed" THEN Loaded(EmptyDict)      \* JSONDecodeError
    ELSE Loaded(IF entry = Absent THEN EmptyDict ELSE (n :> entry))

(***************************************************************************)
(* Results of a get_parameter call.                                        *)
(***************************************************************************)
Return(v, src, seen, reads) ==
    [kind |-> "return", value |-> v, exc |-> "", msgParam |-> "",
     src |-> src, consulted |-> seen, reads |-> reads]

Raise(exc, n, seen, reads) ==
    [kind |-> "raise", value |-> None, exc |-> exc, msgParam |-> n,
     src |-> "none", consulted |-> seen, reads |-> reads]

NoResult ==
    [kind |-> "none", value |-> None, exc |-> "", msgParam |-> "",
     src |-> "none", consulted |-> <<>>, reads |-> 0]

\* name.upper() on the names of the model
Upper(n) ==
    CASE n = "project_id" -> "PROJECT_ID"
      [] n = "app_id" -> "APP_ID"
      [] n = "api_location" -> "API_LOCATION"
      [] n = "re_location" -> "RE_LOCATION"
      [] n = "location" -> "LOCATION"
      [] n = "resource_name" -> "RESOURCE_NAME"
      [] n = "ars_display_name" -> "ARS_DISPLAY_NAME"
      [] n = "description" -> "DESCRIPTION"
      [] n = "tool_description" -> "TOOL_DESCRIPTION"
      [] n = "adk_deployment_id" -> "ADK_DEPLOYMENT_ID"
      [] n = "auth_id" -> "AUTH_ID"
      [] n = "icon_uri" -> "ICON_URI"

\* f"AGENTSPACE_{name.upper()}"
env_name(n) == "AGENTSPACE_" \o Upper(n)

GCP == "GOOGLE_CLOUD_PROJECT"

(***************************************************************************)
(* ConfigManager.get_parameter                                             *)
(***************************************************************************)
CM_cli_present_truthy(cli, n) == n \in DOMAIN cli /\ Truthy(cli[n])

\* name in self._cli_args and self._cli_args[name] is not None
CM_cli_present(cli, n) == n \in DOMAIN cli /\ cli[n] # None

CM_config_present_truthy(cfg, n) == n \in DOMAIN cfg /\ Truthy(cfg[n])

\* hasattr(config, name) and getattr(config, name) is not None
CM_config_present(cfg, n) == n \in DOMAIN cfg /\ cfg[n] # None

CM_env_present_truthy(env, n) == env_name(n) \in DOMAIN env /\ Truthy(env[env_name(n)])

\* env_name in os.environ
CM_env_present(env, n) == env_name(n) \in DOMAIN env

CM_tail_required_first(n, prompt, answer, default, required, seen) ==
    LET asked == Truthy(prompt)
        user_input == strip(answer)
        seen1 == IF asked THEN Append(seen, "prompt") ELSE seen
        reads == IF asked THEN 1 ELSE 0
    IN  IF asked /\ user_input # <<>>
        THEN Return(Str(user_input), "prompt", seen1, reads)
        ELSE IF required
        THEN Raise("ValueError", n, seen1, reads)
        ELSE IF default # None
        THEN Return(default, "default", Append(seen1, "default"), reads)
        ELSE Return(None, "none", Append(seen1, "default"), reads)

CM_tail_reprompt(n, prompt, answer, default, required, seen) ==
    LET asked == Truthy(prompt)
        user_input == strip(answer)
        seen1 == IF asked THEN Append(seen, "prompt") ELSE seen
        seen2 == IF asked /\ user_input = <<>> THEN Append(seen1, "prompt") ELSE seen1
        reads == IF asked THEN (IF user_input = <<>> THEN 2 ELSE 1) ELSE 0
    IN  IF asked /\ user_input # <<>>
        THEN Return(Str(user_input), "prompt", seen2, reads)
        ELSE IF asked /\ default = None /\ required
        THEN Raise("ValueError", n, seen2, reads)
        ELSE IF default # None
        THEN Return(default, "default", Append(seen2, "default"), reads)
        ELSE IF required
        THEN Raise("ValueError", n, Append(seen2, "default"), reads)
        ELSE Return(None, "none", Append(seen2, "default"), reads)

\* Steps 4 and 5: the prompt, then the default, then the required check.
CM_tail(n, prompt, answer, default, required, seen) ==
    LET asked == Truthy(prompt)                       \* if prompt:
        user_input == strip(answer)                   \* input(...).strip()
        seen1 == IF asked THEN Append(seen, "prompt") ELSE seen
        reads == IF asked THEN 1 ELSE 0
    IN  IF asked /\ user_input # <<>>
        THEN Return(Str(user_input), "prompt", seen1, reads)
        ELSE IF asked /\ default = None /\ required
        THEN Raise("ValueError", n, seen1, reads)
        ELSE IF default # None
        THEN Return(default, "default", Append(seen1, "default"), reads)
        ELSE IF required
        THEN Raise("ValueError", n, Append(seen1, "default"), reads)
        ELSE Return(None, "none", Append(seen1, "default"), reads)

CM_get_parameter(cli, cfg, env, n, prompt, answer, default, required) ==
    IF CM_cli_present(cli, n)
    THEN Return(cli[n], "cli", <<"cli">>, 0)
    ELSE IF CM_config_present(cfg, n)
    THEN Return(cfg[n], "config", <<"cli", "config">>, 0)
    ELSE IF CM_env_present(env, n)
    THEN Return(env[env_name(n)], "env", <<"cli", "config", "env">>, 0)
    ELSE CM_tail(n, prompt, answer, default, required, <<"cli", "config", "env">>)

(***************************************************************************)
(* as_registry_client.get_parameter                                        *)
(***************************************************************************)
\* getattr(args, name, None)
getattr(args, n) == IF n \in DOMAIN args THEN args[n] ELSE None

RC_cli_present_truthy(args, n) == Truthy(getattr(args, n))

\* cli_value is not None
RC_cli_present(args, n) == getattr(args, n) # None

\* name in config
RC_config_present(cfg, n) == n \in DOMAIN cfg

RC_tail_no_strip(n, prompt, answer, default, required, seen) ==
    LET asked == Truthy(prompt)
        seen1 == IF asked THEN Append(seen, "prompt") ELSE seen
        reads == IF asked THEN 1 ELSE 0
    IN  IF asked /\ answer # <<>>
        THEN Return(Str(answer), "prompt", seen1, reads)
        ELSE IF asked /\ default = None /\ required
        THEN Raise("ValueError", n, seen1, reads)
        ELSE IF default # None
        THEN Return(default, "default", Append(seen1, "default"), reads)
        ELSE IF required
        THEN Raise("ValueError", n, Append(seen1, "default"), reads)
        ELSE Return(None, "none", Append(seen1, "default"), reads)

\* Steps 3 and 4: the prompt, then the default, then the required check.
RC_tail(n, prompt, answer, default, required, seen) ==
    LET asked == Truthy(prompt)
        user_input == strip(answer)
        seen1 == IF asked THEN Append(seen, "prompt") ELSE seen
        reads == IF asked THEN 1 ELSE 0
    IN  IF asked /\ user_input # <<>>
        THEN Return(Str(user_input), "prompt", seen1, reads)
        ELSE IF asked /\ default = None /\ required
        THEN Raise("ValueError", n, seen1, reads)
        ELSE IF default # None
        THEN Return(default, "default", Append(seen1, "default"), reads)
        ELSE IF required
        THEN Raise("ValueError", n, Append(seen1, "default"), reads)
        ELSE Return(None, "none", Append(seen1, "default"), reads)

RC_get_parameter(cfg, args, n, prompt, answer, default, required) ==
    IF RC_cli_present(args, n)
    THEN Return(getattr(args, n), "cli", <<"cli">>, 0)
    ELSE IF RC_config_present(cfg, n)
    THEN Return(cfg[n], "config", <<"cli", "config">>, 0)
    ELSE RC_tail(n, prompt, answer, default, required, <<"cli", "config">>)

(***************************************************************************)
(* agent_engine_client.get_parameter                                       *)
(***************************************************************************)
\* os.getenv(v)
getenv(env, v) == IF v \in DOMAIN env THEN env[v] ELSE None

\* name == "project_id" and the truthiness test on GOOGLE_CLOUD_PROJECT
EC_env_present(env, n) == n = "project_id" /\ Truthy(getenv(env, GCP))

EC_get_parameter(args, env, n, prompt, answer, default, required) ==
    LET value == getattr(args, n)
        seen0 == IF n = "project_id" THEN <<"cli", "env">> ELSE <<"cli">>
        asked == Truthy(prompt)
        seen1 == IF asked THEN Append(seen0, "prompt") ELSE seen0
        reads == IF asked THEN 1 ELSE 0
    IN  IF value # None
        THEN Return(value, "cli", <<"cli">>, 0)
        ELSE IF EC_env_present(env, n)
        THEN Return(getenv(env, GCP), "env", seen0, 0)
        ELSE IF asked /\ answer # <<>>              \* no strip here
        THEN Return(Str(answer), "prompt", seen1, reads)
        ELSE IF required /\ ~Truthy(value) /\ ~Truthy(default)
        THEN Raise("ValueError", n, Append(seen1, "default"), reads)
        ELSE Return(default, IF default # None THEN "default" ELSE "none",
                    Append(seen1, "default"), reads)

(***************************************************************************)
(* The inputs of one process.                                              *)
(***************************************************************************)
Resolvers == {"ConfigManager", "registry_client", "engine_client"}

CliValues == {None, Str(<<>>), Str(<<"c">>)}
FileEntries == {Absent, None, Str(<<>>), Str(<<"f">>)}
EnvValues == {Str(<<>>), Str(<<"e">>)}
Prompts == {None, Str(<<>>), Str(<<"P">>)}
Defaults == {None, Str(<<>>), Str(<<"d">>)}

\* The dicts that hold the key n, or nothing.
DictsOver(n, values) == {EmptyDict} \cup { (n :> v) : v \in values }

\* The environment variable a resolver reads for n.
EnvVarFor(r, n) == IF r = "engine_client" THEN GCP ELSE env_name(n)

NoCall == [prompt |-> None, default |-> None, required |-> FALSE,
           made |-> FALSE, line |-> Absent]

\* The call as recorded: the line typed is kept only when it was read.
Called(prompt, answer, default, required, res) ==
    [prompt |-> prompt, default |-> default, required |-> required,
     made |-> TRUE, line |-> IF res.reads > 0 THEN Str(answer) ELSE Absent]

\* An exception: its class and what its message carries.
Exc(type, carries) == [type |-> type, carries |-> carries]
NoError == Exc("", {})

\* No value: the operation has not returned, or it raised.
NoValue == "no value"

\* Nothing was rendered.
RenderIdle == rendered = <<>> /\ parsed = Absent

\* No verb runs.
VerbIdle ==
    /\ verb = "none" /\ force = FALSE /\ todo = <<>> /\ resolved = EmptyDict
    /\ confirmed = "unasked" /\ sdkInit = FALSE /\ netCalls = <<>>
    /\ output = <<>> /\ execResult = NoValue /\ verbError = NoError /\ exitCode = -1
    /\ RenderIdle /\ history = <<>>

Init ==
    /\ resolver \in Resolvers
    /\ name \in Names
    /\ cli_args \in DictsOver(name, CliValues)
    /\ fileState \in IF resolver = "engine_client" THEN {"missing"}
                     ELSE {"missing", "malformed", "object"}
    /\ fileEntry \in IF fileState = "object" THEN FileEntries ELSE {Absent}
    /\ environ \in DictsOver(EnvVarFor(resolver, name), EnvValues)
    /\ fileData = EmptyDict
    /\ config = Unloaded
    /\ pc = "start"
    /\ call = NoCall
    /\ result = NoResult
    /\ VerbIdle

\* ConfigManager.get_parameter, load_config() included (its first statement)
CM_get_parameter_call ==
    /\ resolver = "ConfigManager" /\ pc = "start"
    /\ \E prompt \in Prompts, answer \in Answers, default \in Defaults, required \in BOOLEAN :
         LET cfg == CM_load_config(config, fileState, name, fileEntry) IN
         IF cfg.raised
         THEN /\ config' = cfg /\ pc' = "crashed"
              /\ UNCHANGED <<call, result>>
         ELSE LET res == CM_get_parameter(cli_args, cfg.data, environ, name,
                                          prompt, answer, default, required)
              IN /\ config' = cfg
                 /\ result' = res
                 /\ call' = Called(prompt, answer, default, required, res)
                 /\ pc' = "done"
    /\ UNCHANGED inputVars
    /\ UNCHANGED verbVars

\* as_registry_client.main: config = load_config(args.config)
RC_load_config_call ==
    /\ resolver = "registry_client" /\ pc = "start"
    /\ config' = RC_load_config(fileState, name, fileEntry)
    /\ pc' = IF config'.raised THEN "crashed" ELSE "loaded"
    /\ UNCHANGED <<inputVars, call, result>>
    /\ UNCHANGED verbVars

\* as_registry_client.get_parameter
RC_get_parameter_call ==
    /\ resolver = "registry_client" /\ pc = "loaded"
    /\ \E prompt \in Prompts, answer \in Answers, default \in Defaults, required \in BOOLEAN :
         LET res == RC_get_parameter(config.data, cli_args, name,
                                     prompt, answer, default, required)
         IN /\ result' = res
            /\ call' = Called(prompt, answer, default, required, res)
    /\ pc' = "done"
    /\ UNCHANGED <<inputVars, config>>
    /\ UNCHANGED verbVars

\* agent_engine_client.get_parameter
EC_get_parameter_call ==
    /\ resolver = "engine_client" /\ pc = "start"
    /\ \E prompt \in Prompts, answer \in Answers, default \in Defaults, required \in BOOLEAN :
         LET res == EC_get_parameter(cli_args, environ, name,
                                     prompt, answer, default, required)
         IN /\ result' = res
            /\ call' = Called(prompt, answer, default, required, res)
    /\ pc' = "done"
    /\ UNCHANGED <<inputVars, config>>
    /\ UNCHANGED verbVars

Next ==
    \/ CM_get_parameter_call
    \/ RC_load_config_call
    \/ RC_get_parameter_call
    \/ EC_get_parameter_call

Spec == Init /\ [][Next]_vars

(***************************************************************************)
(* The access-token provider and the HTTP services.  A service operation   *)
(* is a function of what the world answers: what google.auth yields and    *)
(* the response of the server.  Its outcome lists the network calls it     *)
(* made, in order.                                                         *)
(***************************************************************************)
\* google.auth.default() / credentials.refresh() raised.
Failed == [t |-> "raised"]

\* What the credentials yield: an exception, or credentials.token.
TokenOutcomes == {Failed, None, Str(<<>>), Str(<<"t">>)}

\* utils/auth.py get_access_token: the token, or AuthenticationError.
get_access_token(outcome) ==
    IF outcome = Failed
    THEN [ok |-> FALSE, exc |-> Exc("AuthenticationError", {"cause"}), token |-> None]
    ELSE [ok |-> TRUE, exc |-> NoError, token |-> outcome]

\* as_agent_registry_service.py get_access_token: the token, or None.
legacy_get_access_token(outcome) == IF outcome = Failed THEN None ELSE outcome

\* _get_headers: get_access_token(), then `if not access_token: raise`.
get_headers(outcome) ==
    LET r == get_access_token(outcome)
    IN  IF ~r.ok THEN r
        ELSE IF ~Truthy(r.token)
        THEN [ok |-> FALSE, exc |-> Exc("AuthenticationError", {}), token |-> None]
        ELSE r

\* The network calls: the token refresh, an HTTP request (with what its URL,
\* query and body hold, see the request builders below), an SDK call.
TokenCall(op, outcome) ==
    [kind |-> "token", op |-> op, method |-> "", bearer |-> Absent,
     outcome |-> outcome, resp |-> Absent, payload |-> Absent]
Request(op, method, bearer, resp, payload) ==
    [kind |-> "request", op |-> op, method |-> method, bearer |-> bearer,
     outcome |-> Absent, resp |-> resp, payload |-> payload]
SdkCall(op, method, ok) ==
    [kind |-> "sdk", op |-> op, method |-> method, bearer |-> Absent,
     outcome |-> Absent, resp |-> [ok |-> ok], payload |-> Absent]

\* The answers of the server: no response at all (httpx.RequestError), or a
\* status with a body that is a JSON object, {}, a JSON array, or not JSON.
NoResponse == [status |-> 0, body |-> "none"]
Statuses == {200, 204, 404, 500}
Bodies == {"object", "empty_object", "array", "not_json"}
Responses == {NoResponse} \cup [status : Statuses, body : Bodies]

\* What a service operation did.
SvcReturn(value, calls) ==
    [kind |-> "return", value |-> value, exc |-> NoError, calls |-> calls]
SvcRaise(exc, calls) ==
    [kind |-> "raise", value |-> NoValue, exc |-> exc, calls |-> calls]

\* _handle_response: raise_for_status(), then response.json().
handle_response(resp) ==
    IF resp.status >= 400
    THEN [ok |-> FALSE, exc |-> Exc("ServiceError", {"status", "body"}), value |-> NoValue]
    ELSE IF resp.body = "not_json"             \* JSONDecodeError / Exception
    THEN [ok |-> FALSE, exc |-> Exc("ServiceError", {"decode"}), value |-> NoValue]
    ELSE [ok |-> TRUE, exc |-> NoError, value |-> resp.body]

\* Python truthiness of what an operation returns.
ResultTruthy(v) == v \in {"object", "array", "message", "error_dict", "text"}

\* isinstance(result, dict)
IsDict(v) == v \in {"object", "empty_object", "message", "error_dict"}

\* What the operation does with the parsed body:
\*   "as_is"  return result
\*   "get"    result.get(...) first (AttributeError unless a dict), return result
\*   "wrap"   return {"agents": result.get("agents", [])}
After(value, how, calls) ==
    IF how = "as_is" THEN SvcReturn(value, calls)
    ELSE IF ~IsDict(value) THEN SvcRaise(Exc("AttributeError", {}), calls)
    ELSE IF how = "get" THEN SvcReturn(value, calls)
    ELSE SvcReturn("object", calls)

\* headers = self._get_headers(project_id); response = self.client.<method>(...);
\* result = self._handle_response(response); ...
HttpOp(op, method, how, outcome, resp, payload) ==
    LET h == get_headers(outcome)
        c1 == <<TokenCall(op, outcome)>>
        c2 == Append(c1, Request(op, method, h.token, resp, payload))
    IN  IF ~h.ok THEN SvcRaise(h.exc, c1)
        ELSE IF resp = NoResponse THEN SvcRaise(Exc("RequestError", {}), c2)
        ELSE LET r == handle_response(resp)
             IN IF r.ok THEN After(r.value, how, c2) ELSE SvcRaise(r.exc, c2)

\* delete_agent / delete_authorization: 204 is answered with a message, any
\* other response goes through _handle_response.
HttpDeleteOp(op, outcome, resp, payload) ==
    LET h == get_headers(outcome)
        c1 == <<TokenCall(op, outcome)>>
        c2 == Append(c1, Request(op, "DELETE", h.token, resp, payload))
    IN  IF ~h.ok THEN SvcRaise(h.exc, c1)
        ELSE IF resp = NoResponse THEN SvcRaise(Exc("RequestError", {}), c2)
        ELSE IF resp.status = 204 THEN SvcReturn("message", c2)
        ELSE LET r == handle_response(resp)
             IN IF r.ok THEN SvcReturn(r.value, c2) ELSE SvcRaise(r.exc, c2)

\* The operations of AgentRegistryService and AuthorizationService.
RegistryOps == {"registry.create_agent", "registry.list_agents", "registry.get_agent",
                "registry.update_agent", "registry.get_agent_by_display_name",
                "registry.delete_agent"}
AuthOps == {"auth.create_authorization", "auth.list_authorizations",
            "auth.delete_authorization"}
HttpOps == RegistryOps \cup AuthOps

\* The optional fields of update_agent.
UpdateFields == {"display_name", "description", "tool_description",
                 "adk_deployment_id", "auth_id", "icon_uri"}

(***************************************************************************)
(* What a request holds.  A resource path                                  *)
(*   f"projects/{project_id}/locations/{location}/<collection>/{id}"       *)
(* is the record of its three parts; a key that a body does not hold is    *)
(* Absent.                                                                 *)
(***************************************************************************)
Path(project_id, location, id) ==
    [project |-> project_id, location |-> location, id |-> id]

\* The defaults of the keyword parameters of an operation.
SignatureDefaults(op) ==
    CASE op = "registry.create_agent" ->
            [auth_id |-> None, icon_uri |-> None, re_location |-> GLOBAL,
             api_location |-> GLOBAL]
      [] op = "registry.update_agent" ->
            Merge(Const(UpdateFields, None),
                  [re_location |-> GLOBAL, api_location |-> GLOBAL])
      [] op \in RegistryOps -> [api_location |-> GLOBAL]
      [] OTHER -> EmptyDict

\* The arguments as the body of the operation sees them.
BindArgs(op, kwargs) == Merge(SignatureDefaults(op), kwargs)

\* AgentRegistryService.create_agent: the location of the URL and `data`.
create_agent_data(a) ==
    [location |-> a.api_location,
     displayName |-> a.display_name,
     description |-> a.description,
     tool_description |-> a.tool_description,
     reasoning_engine |-> Path(a.project_id, a.re_location, a.adk_deployment_id),
     authorizations |-> IF Truthy(a.auth_id)
                        THEN <<Path(a.project_id, a.api_location, a.auth_id)>>
                        ELSE <<>>,
     icon |-> IF Truthy(a.icon_uri) THEN a.icon_uri ELSE Absent]

\* AgentRegistryService.update_agent: the fields in the order of its `if`s,
\* the name each has in the mask and in `data`, and the value `data` gets.
UpdateOrder == <<"display_name", "description", "tool_description",
                 "adk_deployment_id", "auth_id", "icon_uri">>

MaskName(f) ==
    CASE f = "display_name" -> "displayName"
      [] f = "description" -> "description"
      [] f = "tool_description" -> "adk_agent_definition.tool_settings.tool_description"
      [] f = "adk_deployment_id" ->
            "adk_agent_definition.provisioned_reasoning_engine.reasoning_engine"
      [] f = "auth_id" -> "adk_agent_definition.authorizations"
      [] f = "icon_uri" -> "icon.uri"

update_entry(a, f) ==
    CASE f = "adk_deployment_id" -> Path(a.project_id, a.re_location, a.adk_deployment_id)
      [] f = "auth_id" -> <<Path(a.project_id, a.api_location, a.auth_id)>>
      [] OTHER -> a[f]

RECURSIVE update_mask_and_data_truthy(_, _, _)
update_mask_and_data_truthy(a, i, acc) ==
    IF i > Len(UpdateOrder) THEN acc
    ELSE LET f == UpdateOrder[i]
         IN update_mask_and_data_truthy(a, i + 1,
               IF Truthy(a[f])
               THEN [mask |-> Append(acc.mask, MaskName(f)),
                     data |-> With(acc.data, MaskName(f), update_entry(a, f))]
               ELSE acc)

\* if <field> is not None: data[...] = ...; update_mask_parts.append(...)
RECURSIVE update_mask_and_data(_, _, _)
update_mask_and_data(a, i, acc) ==
    IF i > Len(UpdateOrder) THEN acc
    ELSE LET f == UpdateOrder[i]
         IN update_mask_and_data(a, i + 1,
               IF a[f] # None
               THEN [mask |-> Append(acc.mask, MaskName(f)),
                     data |-> With(acc.data, MaskName(f), update_entry(a, f))]
               ELSE acc)

\* The PATCH of update_agent: params = {"updateMask": ...}, json = data.
update_agent_request(a) ==
    LET md == update_mask_and_data(a, 1, [mask |-> <<>>, data |-> EmptyDict])
    IN  [location |-> a.api_location, updateMask |-> md.mask, data |-> md.data]

\* AuthorizationService.create_authorization: the location of the URL,
\* data["name"] and params["authorizationId"].
create_authorization_request(a) ==
    [location |-> a.location,
     name |-> Path(a.project_id, a.location, a.authorization_id),
     authorizationId |-> a.authorization_id]

\* What the request of an operation holds.
RequestOf(op, a) ==
    CASE op = "registry.create_agent" -> create_agent_data(a)
      [] op = "registry.update_agent" -> update_agent_request(a)
      [] op = "auth.create_authorization" -> create_authorization_request(a)
      [] op \in RegistryOps -> [location |-> a.api_location]
      [] OTHER -> [location |-> a.location]

\* update_agent without `if not update_mask_parts: raise ServiceError(...)`.
HttpUpdateOp_always_sends(op, a, outcome, resp) ==
    HttpOp(op, "PATCH", "as_is", outcome, resp, update_agent_request(a))

\* AgentRegistryService.update_agent: the headers are fetched first, then the
\* update mask is built from the fields that are not None.
HttpUpdateOp(op, a, outcome, resp) ==
    LET h == get_headers(outcome)
        c1 == <<TokenCall(op, outcome)>>
        req == update_agent_request(a)
    IN  IF ~h.ok THEN SvcRaise(h.exc, c1)
        ELSE IF req.updateMask = <<>> THEN SvcRaise(Exc("ServiceError", {}), c1)
        ELSE HttpOp(op, "PATCH", "as_is", outcome, resp, req)

\* One call of an operation of the two HTTP services with the keywords
\* `kwargs` (a dict).
ServiceCall(op, kwargs, outcome, resp) ==
    LET a == BindArgs(op, kwargs)
        req == RequestOf(op, a)
    IN  CASE op = "registry.create_agent" -> HttpOp(op, "POST", "get", outcome, resp, req)
          [] op = "registry.list_agents" -> HttpOp(op, "GET", "wrap", outcome, resp, req)
          [] op = "registry.get_agent" -> HttpOp(op, "GET", "as_is", outcome, resp, req)
          [] op = "registry.update_agent" -> HttpUpdateOp(op, a, outcome, resp)
          [] op = "registry.get_agent_by_display_name" ->
                HttpOp(op, "GET", "wrap", outcome, resp, req)
          [] op = "registry.delete_agent" -> HttpDeleteOp(op, outcome, resp, req)
          [] op = "auth.create_authorization" ->
                HttpOp(op, "POST", "as_is", outcome, resp, req)
          [] op = "auth.list_authorizations" -> HttpOp(op, "GET", "wrap", outcome, resp, req)
          [] op = "auth.delete_authorization" -> HttpDeleteOp(op, outcome, resp, req)

\* The declared parameters of each operation (self apart) and the required
\* ones (those without a default).
Parameters(op) ==
    CASE op = "registry.create_agent" ->
            {"project_id", "app_id", "display_name", "description", "tool_description",
             "adk_deployment_id", "auth_id", "icon_uri", "re_location", "api_location"}
      [] op = "registry.list_agents" -> {"project_id", "app_id", "api_location"}
      [] op = "registry.get_agent" -> {"agent_id", "project_id", "app_id", "api_location"}
      [] op = "registry.update_agent" ->
            {"agent_id", "project_id", "app_id", "display_name", "description",
             "tool_description", "adk_deployment_id", "auth_id", "icon_uri",
             "re_location", "api_location"}
      [] op = "registry.get_agent_by_display_name" ->
            {"display_name", "project_id", "app_id", "api_location"}
      [] op = "registry.delete_agent" -> {"agent_id", "project_id", "app_id", "api_location"}
      [] op = "auth.create_authorization" ->
            {"project_id", "location", "authorization_id", "scopes"}
      [] op = "auth.list_authorizations" -> {"project_id", "location"}
      [] op = "auth.delete_authorization" -> {"project_id", "location", "authorization_id"}
      [] op = "engine.initialize" -> {"project_id", "location"}
      [] op = "engine.list_agents" -> {}
      [] op = "engine.get_agent" -> {"resource_id"}
      [] op = "engine.list_agents_by_display_name" -> {"display_name"}
      [] op = "engine.delete_agent" -> {"resource_name"}

RequiredParameters(op) ==
    CASE op = "registry.create_agent" ->
            {"project_id", "app_id", "display_name", "description", "tool_description",
             "adk_deployment_id"}
      [] op = "registry.update_agent" -> {"agent_id", "project_id", "app_id"}
      [] op \in RegistryOps -> Parameters(op) \ {"api_location"}
      [] op = "engine.initialize" -> {"project_id"}
      [] OTHER -> Parameters(op)

\* A call f(**kwargs) binds: no unexpected keyword, no required one missing.
Binds(kwargs, params, required) == kwargs \subseteq params /\ required \subseteq kwargs

(***************************************************************************)
(* The Agent Engine service (vertexai SDK), refactored and legacy.         *)
(***************************************************************************)
EngineOps == {"engine.list_agents", "engine.get_agent",
              "engine.list_agents_by_display_name", "engine.delete_agent"}

\* AgentEngineService.initialize / agent_engine_manager.initialize_vertex_ai:
\* vertexai.init() sets the SDK up locally; `ok` tells whether it raised.
initialize(legacy, project_id, ok) ==
    IF ~Truthy(project_id)
    THEN [initialized |-> FALSE, changed |-> FALSE,
          exc |-> Exc(IF legacy THEN "ValueError" ELSE "InitializationError", {})]
    ELSE IF ok
    THEN [initialized |-> TRUE, changed |-> TRUE, exc |-> NoError]
    ELSE [initialized |-> FALSE, changed |-> TRUE,
          exc |-> Exc(IF legacy THEN "Exception" ELSE "InitializationError", {"cause"})]

\* The SDK method an operation calls.
SdkMethod(op) == IF op = "engine.delete_agent" THEN "delete"
                 ELSE IF op = "engine.get_agent" THEN "get" ELSE "list"

EngineCall_unguarded(op, initialized, ok) ==
    IF ok
    THEN SvcReturn(IF op = "engine.delete_agent" THEN "message" ELSE "object",
                   <<SdkCall(op, SdkMethod(op), ok)>>)
    ELSE SvcRaise(Exc("ServiceError", {"cause"}), <<SdkCall(op, SdkMethod(op), ok)>>)

\* AgentEngineService.list_agents / get_agent / list_agents_by_display_name /
\* delete_agent: _ensure_initialized(), then the SDK call inside try/except.
EngineCall(op, initialized, ok) ==
    IF ~initialized THEN SvcRaise(Exc("InitializationError", {}), <<>>)
    ELSE IF ok
    THEN SvcReturn(IF op = "engine.delete_agent" THEN "message" ELSE "object",
                   <<SdkCall(op, SdkMethod(op), ok)>>)
    ELSE SvcRaise(Exc("ServiceError", {"cause"}), <<SdkCall(op, SdkMethod(op), ok)>>)

\* agent_engine_manager.list_agents / get_agent / list_agents_by_display_name /
\* delete_agent: _ensure_vertex_ai_initialized(), then the SDK call; what the
\* SDK raises propagates; the result is a str.
ManagerCall(op, initialized, ok) ==
    IF ~initialized THEN SvcRaise(Exc("RuntimeError", {}), <<>>)
    ELSE IF ok THEN SvcReturn("text", <<SdkCall(op, SdkMethod(op), ok)>>)
    ELSE SvcRaise(Exc("Exception", {"cause"}), <<SdkCall(op, SdkMethod(op), ok)>>)

(***************************************************************************)
(* The legacy registry service (as_agent_registry_service.py): each        *)
(* function runs curl in a subprocess and answers with a dict.             *)
(***************************************************************************)
\* What curl gave back: its exit status and what it wrote to stdout.
CurlResults == [returncode : {0, 1}, stdout : Bodies]

ArsOps == {"ars.create_agent", "ars.list_agents", "ars.get_agent", "ars.update_agent",
           "ars.get_agent_by_display_name", "ars.delete_agent"}

\* The parameters a function of as_agent_registry_service checks.
ArsRequired(op) ==
    CASE op = "ars.create_agent" ->
            {"project_id", "app_id", "display_name", "description", "tool_description",
             "adk_deployment_id"}
      [] op = "ars.list_agents" -> {"project_id", "app_id"}
      [] op = "ars.get_agent_by_display_name" -> {"project_id", "app_id", "display_name"}
      [] OTHER -> {"project_id", "app_id", "agent_id"}

\* _check_required_params: TRUE when no required parameter is falsy.
check_required_params(a, required) == \A k \in required : Truthy(a[k])

\* create_agent: the location of the URL and `data`.
ars_create_agent_data(a) ==
    [location |-> a.api_location,
     displayName |-> a.display_name,
     description |-> a.description,
     tool_description |-> a.tool_description,
     reasoning_engine |-> Path(a.project_id, a.re_location, a.adk_deployment_id),
     authorizations |-> IF Truthy(a.auth_id)
                        THEN <<Path(a.project_id, a.api_location, a.auth_id)>>
                        ELSE <<>>,
     icon |-> IF Truthy(a.icon_uri) THEN a.icon_uri ELSE Absent]

\* What update_agent keeps of the agent it fetched.
Existing == [t |-> "existing"]

\* update_agent: the location of the URL and `updated_data`.
ars_update_agent_data(a) ==
    [location |-> a.api_location,
     displayName |-> IF Truthy(a.display_name) THEN a.display_name ELSE Existing,
     description |-> IF Truthy(a.description) THEN a.description ELSE Existing,
     tool_description |-> IF Truthy(a.tool_description) THEN a.tool_description
                          ELSE Existing,
     reasoning_engine |-> IF Truthy(a.adk_deployment_id)
                          THEN Path(a.project_id, a.re_location, a.adk_deployment_id)
                          ELSE Existing,
     authorizations |-> IF Truthy(a.auth_id)
                        THEN <<Path(a.project_id, a.re_location, a.auth_id)>>
                        ELSE <<Existing>>,
     icon |-> IF Truthy(a.icon_uri) THEN a.icon_uri ELSE Existing]

\* One function with one curl run: _check_required_params, the token, curl.
\* `lenient` functions answer a returncode of 0 without parsing stdout.
ars_call(op, method, lenient, a, payload, outcome, curl) ==
    LET token == legacy_get_access_token(outcome)
        c1 == <<TokenCall(op, outcome)>>
        c2 == Append(c1, Request(op, method, token, curl, payload))
    IN  IF ~check_required_params(a, ArsRequired(op))
        THEN SvcRaise(Exc("ValueError", {"params"}), <<>>)
        ELSE IF ~Truthy(token) THEN SvcReturn("error_dict", c1)
        ELSE IF curl.returncode # 0 THEN SvcReturn("error_dict", c2)
        ELSE IF lenient \/ curl.stdout # "not_json" THEN SvcReturn("object", c2)
        ELSE SvcReturn("error_dict", c2)

ars_create_agent(a, outcome, curl) ==
    ars_call("ars.create_agent", "POST", FALSE, a, ars_create_agent_data(a), outcome, curl)
ars_list_agents(a, outcome, curl) ==
    ars_call("ars.list_agents", "GET", FALSE, a, [location |-> a.api_location],
             outcome, curl)
ars_get_agent(a, outcome, curl) ==
    ars_call("ars.get_agent", "GET", FALSE, a, [location |-> a.api_location],
             outcome, curl)
ars_delete_agent(a, outcome, curl) ==
    ars_call("ars.delete_agent", "DELETE", TRUE, a, [location |-> a.api_location],
             outcome, curl)

\* get_agent_by_display_name: list_agents(), then a search in its answer.
ars_get_agent_by_display_name(a, outcome, curl) ==
    IF ~check_required_params(a, ArsRequired("ars.get_agent_by_display_name"))
    THEN SvcRaise(Exc("ValueError", {"params"}), <<>>)
    ELSE ars_list_agents(a, outcome, curl)

\* update_agent: get_agent() first; only with its agent_details the token is
\* fetched again and the PATCH is sent.
ars_update_agent(a, outcome, curl, outcome2, curl2) ==
    LET got == ars_get_agent(a, outcome, curl)
        token == legacy_get_access_token(outcome2)
        c3 == Append(got.calls, TokenCall("ars.update_agent", outcome2))
        c4 == Append(c3, Request("ars.update_agent", "PATCH", token, curl2,
                                 ars_update_agent_data(a)))
    IN  IF ~check_required_params(a, ArsRequired("ars.update_agent"))
        THEN SvcRaise(Exc("ValueError", {"params"}), <<>>)
        ELSE IF got.value # "object" THEN SvcReturn("error_dict", got.calls)
        ELSE IF curl.stdout = "array"              \* existing_agent.get(...)
        THEN SvcRaise(Exc("AttributeError", {}), got.calls)
        ELSE IF ~Truthy(token) THEN SvcReturn("error_dict", c3)
        ELSE SvcReturn(IF curl2.returncode = 0 /\ curl2.stdout # "not_json"
                       THEN "object" ELSE "error_dict", c4)

\* One call of a function of as_agent_registry_service.
ArsCall(op, a, outcome, curl, outcome2, curl2) ==
    CASE op = "ars.create_agent" -> ars_create_agent(a, outcome, curl)
      [] op = "ars.list_agents" -> ars_list_agents(a, outcome, curl)
      [] op = "ars.get_agent" -> ars_get_agent(a, outcome, curl)
      [] op = "ars.get_agent_by_display_name" ->
            ars_get_agent_by_display_name(a, outcome, curl)
      [] op = "ars.delete_agent" -> ars_delete_agent(a, outcome, curl)
      [] op = "ars.update_agent" -> ars_update_agent(a, outcome, curl, outcome2, curl2)

(***************************************************************************)
(* The verbs of the typer CLI and the actions of the two legacy clients.   *)
(* A verb is the list of its statements, run in order; an exception ends   *)
(* the verb in the handler of its program.                                 *)
(***************************************************************************)
RegistryVerbs == {"registry_create", "registry_list", "registry_get",
                  "registry_update", "registry_get_by_name", "registry_delete"}
EngineVerbs == {"engine_list", "engine_get", "engine_list_by_name", "engine_delete"}
AuthVerbs == {"auth_create", "auth_list", "auth_delete", "auth_refresh"}
TyperVerbs == RegistryVerbs \cup EngineVerbs \cup AuthVerbs

RcRegistryVerbs == {"rc_register_agent", "rc_list_registry", "rc_get_registered_agent",
                    "rc_update_registered_agent", "rc_get_registered_agents_by_name",
                    "rc_unregister_agent"}
RcEngineVerbs == {"rc_list_deployed_agents", "rc_undeploy_agent",
                  "rc_get_deployed_agent", "rc_list_deployed_agents_by_name"}
EcVerbs == {"ec_list_deployed_agents", "ec_undeploy_agent",
            "ec_get_deployed_agent", "ec_list_deployed_agents_by_name"}
LegacyVerbs == RcRegistryVerbs \cup RcEngineVerbs \cup EcVerbs
Verbs == TyperVerbs \cup LegacyVerbs

\* The verbs that delete behind a confirmation.
DestructiveVerbs == {"registry_delete", "engine_delete", "auth_delete",
                     "rc_unregister_agent", "rc_undeploy_agent", "ec_undeploy_agent"}

\* The program a verb belongs to.
ProgramOf(v) ==
    CASE v \in TyperVerbs -> "ConfigManager"
      [] v \in RcRegistryVerbs \cup RcEngineVerbs -> "registry_client"
      [] OTHER -> "engine_client"

\* A get_parameter call whose value is kept under `key`.
Param(key, n, prompt, required, default) ==
    [op |-> "param", key |-> key, name |-> n, prompt |-> prompt,
     required |-> required, default |-> default]

Stmt(op, key) ==
    [op |-> op, key |-> key, name |-> "", prompt |-> None,
     required |-> FALSE, default |-> None]

ASK == Str(<<"P">>)
US_CENTRAL1 == Str(<<"us-central1">>)
US == Str(<<"us">>)
ASIA == Str(<<"asia">>)
EU == Str(<<"eu">>)

\* ConfigManager.get_agent_registry_config
get_agent_registry_config ==
    << Param("project_id", "project_id", None, TRUE, None),
       Param("app_id", "app_id", None, TRUE, None),
       Param("api_location", "api_location", None, FALSE, GLOBAL),
       Param("re_location", "re_location", None, FALSE, GLOBAL) >>

\* ConfigManager.get_agent_engine_config
get_agent_engine_config ==
    << Param("project_id", "project_id", None, TRUE, None),
       Param("location", "location", None, FALSE, US_CENTRAL1) >>

\* ConfigManager.get_agent_config
get_agent_config ==
    << Param("display_name", "ars_display_name", None, TRUE, None),
       Param("description", "description", None, TRUE, None),
       Param("tool_description", "tool_description", None, TRUE, None),
       Param("adk_deployment_id", "adk_deployment_id", None, TRUE, None),
       Param("auth_id", "auth_id", None, FALSE, None),
       Param("icon_uri", "icon_uri", None, FALSE, None) >>

\* AuthCommand.get_auth_config
get_auth_config ==
    << Param("project_id", "project_id", None, TRUE, None),
       Param("location", "location", None, FALSE, US) >>

refresh_execute_delete_first ==
    << Stmt("call", "auth.delete_authorization"), Stmt("call", "auth.create_authorization"),
       Stmt("extract", "new_auth_id"), Stmt("compose", "") >>

\* RefreshAuthorizationCommand.execute, after the old_auth_id check and
\* get_auth_config: create, read the new id, delete the old, build the answer.
refresh_execute ==
    << Stmt("call", "auth.create_authorization"), Stmt("extract", "new_auth_id"),
       Stmt("call", "auth.delete_authorization"), Stmt("compose", "") >>

\* as_registry_client.main: the Vertex AI initialisation block.
rc_init_block ==
    << Param("project_id", "project_id", ASK, TRUE, None),
       Param("location", "location", ASK, FALSE, None),
       Stmt("init", "") >>

\* as_registry_client.main: the parameters every registry action starts with.
rc_project_app ==
    << Param("project_id", "project_id", ASK, TRUE, None),
       Param("app_id", "app_id", ASK, TRUE, None) >>

rc_api_location == << Param("api_location", "api_location", ASK, FALSE, GLOBAL) >>

\* agent_engine_client.main: project, location, initialize_vertex_ai.
ec_init_block ==
    << Param("project_id", "project_id", ASK, TRUE, None),
       Param("location", "location", ASK, FALSE, None),
       Stmt("init", "") >>

\* The statements of the typer verbs, in program order.
TyperScript(v) ==
    CASE v = "registry_create" ->
            get_agent_registry_config \o get_agent_config
            \o << Stmt("call", "registry.create_agent"), Stmt("print", "") >>
      [] v = "registry_list" ->
            get_agent_registry_config
            \o << Stmt("call", "registry.list_agents"), Stmt("print", "") >>
      [] v = "registry_get" ->
            << Stmt("check", "agent_id") >> \o get_agent_registry_config
            \o << Stmt("call", "registry.get_agent"), Stmt("print", "") >>
      [] v = "registry_update" ->
            << Stmt("check", "agent_id") >> \o get_agent_registry_config
            \o get_agent_config
            \o << Stmt("call", "registry.update_agent"), Stmt("print", "") >>
      [] v = "registry_get_by_name" ->
            << Stmt("check", "display_name") >> \o get_agent_registry_config
            \o << Stmt("call", "registry.get_agent_by_display_name"), Stmt("print", "") >>
      [] v = "registry_delete" ->
            << Stmt("typer_confirm", ""), Stmt("check", "agent_id") >>
            \o get_agent_registry_config
            \o << Stmt("call", "registry.delete_agent"), Stmt("print", ""),
                  Stmt("success", "") >>
      [] v = "engine_list" ->
            get_agent_engine_config
            \o << Stmt("init", ""), Stmt("call", "engine.list_agents"), Stmt("print", "") >>
      [] v = "engine_get" ->
            << Stmt("check", "resource_id") >> \o get_agent_engine_config
            \o << Stmt("init", ""), Stmt("call", "engine.get_agent"), Stmt("print", "") >>
      [] v = "engine_list_by_name" ->
            << Stmt("check", "display_name") >> \o get_agent_engine_config
            \o << Stmt("init", ""), Stmt("call", "engine.list_agents_by_display_name"),
                  Stmt("print", "") >>
      [] v = "engine_delete" ->
            << Stmt("typer_confirm", ""), Stmt("check", "resource_name") >>
            \o get_agent_engine_config
            \o << Stmt("init", ""), Stmt("call", "engine.delete_agent"), Stmt("print", ""),
                  Stmt("success", "") >>
      [] v = "auth_create" ->
            get_auth_config
            \o << Stmt("call", "auth.create_authorization"),
                  Stmt("extract", "authorization_id"), Stmt("print_json", ""),
                  Stmt("success", "") >>
      [] v = "auth_list" ->
            get_auth_config
            \o << Stmt("call", "auth.list_authorizations"), Stmt("print", "") >>
      [] v = "auth_delete" ->
            << Stmt("typer_confirm", ""), Stmt("check", "authorization_id") >>
            \o get_auth_config
            \o << Stmt("call", "auth.delete_authorization"), Stmt("print", ""),
                  Stmt("success", "") >>
      [] v = "auth_refresh" ->
            << Stmt("note", "new_auth_id"), Stmt("check", "old_auth_id") >>
            \o get_auth_config \o refresh_execute \o << Stmt("print", "") >>

\* The statements of the legacy actions, in program order.
LegacyScript(v) ==
    CASE v = "rc_register_agent" ->
            << Stmt("load_config", "") >> \o rc_project_app
            \o << Param("display_name", "ars_display_name", ASK, TRUE, None),
                  Param("description", "description", ASK, TRUE, None),
                  Param("tool_description", "tool_description", ASK, TRUE, None),
                  Param("adk_deployment_id", "adk_deployment_id", ASK, TRUE, None),
                  Param("auth_id", "auth_id", ASK, FALSE, None),
                  Param("re_location", "re_location", ASK, FALSE, GLOBAL) >>
            \o rc_api_location
            \o << Param("icon_uri", "icon_uri", ASK, FALSE, None),
                  Stmt("call", "ars.create_agent"), Stmt("print", "") >>
      [] v = "rc_list_registry" ->
            << Stmt("load_config", "") >> \o rc_project_app \o rc_api_location
            \o << Stmt("call", "ars.list_agents"), Stmt("print", "") >>
      [] v = "rc_get_registered_agent" ->
            << Stmt("load_config", "") >> \o rc_project_app
            \o << Param("agent_id", "agent_id", ASK, TRUE, None) >> \o rc_api_location
            \o << Stmt("call", "ars.get_agent"), Stmt("print", "") >>
      [] v = "rc_update_registered_agent" ->
            << Stmt("load_config", "") >> \o rc_project_app
            \o << Param("agent_id", "agent_id", ASK, TRUE, None),
                  Param("display_name", "ars_display_name", ASK, FALSE, None),
                  Param("description", "description", ASK, FALSE, None),
                  Param("tool_description", "tool_description", ASK, FALSE, None),
                  Param("adk_deployment_id", "adk_deployment_id", ASK, FALSE, None),
                  Param("auth_id", "auth_id", ASK, FALSE, None),
                  Param("re_location", "re_location", ASK, FALSE, GLOBAL) >>
            \o rc_api_location
            \o << Param("icon_uri", "icon_uri", ASK, FALSE, None),
                  Stmt("call", "ars.update_agent"), Stmt("print", "") >>
      [] v = "rc_get_registered_agents_by_name" ->
            << Stmt("load_config", "") >> \o rc_project_app
            \o << Param("display_name", "ars_display_name", ASK, TRUE, None) >>
            \o rc_api_location
            \o << Stmt("call", "ars.get_agent_by_display_name"), Stmt("print", "") >>
      [] v = "rc_unregister_agent" ->
            << Stmt("load_config", "") >> \o rc_project_app
            \o << Param("agent_id", "agent_id", ASK, TRUE, None) >> \o rc_api_location
            \o << Stmt("input_confirm", ""), Stmt("call", "ars.delete_agent"),
                  Stmt("print", "") >>
      [] v = "rc_list_deployed_agents" ->
            << Stmt("load_config", "") >> \o rc_init_block
            \o << Stmt("call", "engine.list_agents"), Stmt("print", "") >>
      [] v = "rc_undeploy_agent" ->
            << Stmt("load_config", "") >> \o rc_init_block
            \o << Param("resource_name", "re_resource_name", ASK, TRUE, None),
                  Stmt("input_confirm", ""), Stmt("call", "engine.delete_agent"),
                  Stmt("print", "") >>
      [] v = "rc_get_deployed_agent" ->
            << Stmt("load_config", "") >> \o rc_init_block
            \o << Param("resource_id", "re_resource_id", ASK, TRUE, None),
                  Stmt("call", "engine.get_agent"), Stmt("print", "") >>
      [] v = "rc_list_deployed_agents_by_name" ->
            << Stmt("load_config", "") >> \o rc_init_block
            \o << Param("display_name", "re_display_name", ASK, TRUE, None),
                  Stmt("call", "engine.list_agents_by_display_name"), Stmt("print", "") >>
      [] v = "ec_list_deployed_agents" ->
            ec_init_block \o << Stmt("call", "engine.list_agents"), Stmt("print", "") >>
      [] v = "ec_undeploy_agent" ->
            ec_init_block
            \o << Param("resource_name", "resource_name", ASK, TRUE, None),
                  Stmt("input_confirm", ""), Stmt("call", "engine.delete_agent"),
                  Stmt("print", "") >>
      [] v = "ec_get_deployed_agent" ->
            ec_init_block
            \o << Param("resource_id", "resource_id", ASK, TRUE, None),
                  Stmt("call", "engine.get_agent"), Stmt("print", "") >>
      [] v = "ec_list_deployed_agents_by_name" ->
            ec_init_block
            \o << Param("display_name", "display_name", ASK, TRUE, None),
                  Stmt("call", "engine.list_agents_by_display_name"), Stmt("print", "") >>

Script(v) == IF v \in TyperVerbs THEN TyperScript(v) ELSE LegacyScript(v)

(***************************************************************************)
(* The inputs of a verb.                                                   *)
(***************************************************************************)
\* The argument or option that names what the verb acts on.
TargetKey(v) ==
    CASE v \in {"registry_get", "registry_update", "registry_delete"} -> "agent_id"
      [] v \in {"registry_get_by_name", "engine_list_by_name"} -> "display_name"
      [] v = "engine_get" -> "resource_id"
      [] v = "engine_delete" -> "resource_name"
      [] v \in {"auth_create", "auth_delete"} -> "authorization_id"
      [] v = "auth_refresh" -> "old_auth_id"
      [] OTHER -> ""

ProjectIds == {None, Str(<<"p">>)}
Targets == {Str(<<>>), Str(<<"x">>)}

\* The agent options of `registry create` / `registry update`; the legacy
\* clients name the display name ars_display_name.
AgentFlags == {"display_name", "description", "tool_description",
               "adk_deployment_id", "auth_id", "icon_uri"}
LegacyAgentFlags == (AgentFlags \ {"display_name"}) \cup {"ars_display_name"}

\* locals() of a typer verb.  A location option that is not given holds the
\* default of its typer.Option; `create`, `update` and the two `list` verbs
\* are also run with the location options given.
TyperCliOf(v) ==
    CASE v \in {"registry_create", "registry_update"} ->
            { Merge(Merge([project_id |-> p, app_id |-> a, api_location |-> l,
                           re_location |-> l],
                          Const(AgentFlags, g)),
                    IF v = "registry_update" THEN [agent_id |-> t] ELSE EmptyDict) :
                p \in ProjectIds, a \in {None, Str(<<"a">>)},
                t \in IF v = "registry_update" THEN Targets ELSE {None},
                g \in {None, Str(<<"g">>)}, l \in {GLOBAL, ASIA} }
      [] v = "registry_list" ->
            { [project_id |-> p, app_id |-> a, api_location |-> GLOBAL] :
                p \in ProjectIds, a \in {None, Str(<<"a">>)} }
      [] v \in RegistryVerbs ->
            { Merge([project_id |-> p, app_id |-> a, api_location |-> GLOBAL],
                    Const({TargetKey(v)}, t)) :
                p \in ProjectIds, a \in {None, Str(<<"a">>)}, t \in Targets }
      [] v = "engine_list" ->
            { [project_id |-> p, location |-> l] :
                p \in ProjectIds, l \in {US_CENTRAL1, ASIA} }
      [] v \in EngineVerbs ->
            { Merge([project_id |-> p, location |-> US_CENTRAL1],
                    Const({TargetKey(v)}, t)) : p \in ProjectIds, t \in Targets }
      [] v = "auth_list" ->
            { [project_id |-> p, location |-> l] : p \in ProjectIds, l \in {US, ASIA} }
      [] v = "auth_create" ->
            { [authorization_id |-> t, project_id |-> p, location |-> US,
               scopes |-> Str(<<"email">>)] :
                p \in ProjectIds, t \in {None} \cup Targets }
      [] v = "auth_delete" ->
            { [authorization_id |-> t, project_id |-> p, location |-> US] :
                p \in ProjectIds, t \in Targets }
      [] v = "auth_refresh" ->
            { [old_auth_id |-> t, new_auth_id |-> n, project_id |-> p, location |-> US,
               scopes |-> Str(<<"email">>)] :
                p \in ProjectIds, t \in Targets, n \in {None, Str(<<"n">>)} }

\* The argparse namespace of a legacy client.
LegacyCliOf(v) ==
    CASE v \in {"rc_register_agent", "rc_update_registered_agent"} ->
            { Merge([project_id |-> p, app_id |-> None, agent_id |-> None,
                     api_location |-> g, re_location |-> g, location |-> None],
                    Const(LegacyAgentFlags, g)) :
                p \in ProjectIds,
                g \in IF v = "rc_register_agent" THEN {None} ELSE {Str(<<"g">>)} }
      [] v \in RcRegistryVerbs \cup RcEngineVerbs ->
            { [project_id |-> p, app_id |-> None, agent_id |-> None,
               ars_display_name |-> None, api_location |-> None, location |-> None,
               re_resource_name |-> None, re_resource_id |-> None,
               re_display_name |-> None] : p \in ProjectIds }
      [] v \in EcVerbs ->
            { [project_id |-> p, location |-> None, resource_name |-> None,
               resource_id |-> None, display_name |-> None] : p \in ProjectIds }

CliOf(v) == IF v \in TyperVerbs THEN TyperCliOf(v) ELSE LegacyCliOf(v)

\* The config.json of a typer verb, when there is one: every agent field set;
\* or the application id together with a null api_location; or every agent
\* field and the three locations set.
FullFile ==
    [project_id |-> Str(<<"fp">>), app_id |-> Str(<<"fa">>),
     ars_display_name |-> Str(<<"fn">>), description |-> Str(<<"fd">>),
     tool_description |-> Str(<<"ft">>), adk_deployment_id |-> Str(<<"fk">>)]
NullLocationFile == [app_id |-> Str(<<"fa">>), api_location |-> None]
LocationFile ==
    Merge(FullFile, [api_location |-> EU, re_location |-> EU, location |-> EU])
VerbFiles == {FullFile, NullLocationFile, LocationFile}

\* The lines typed at a prompt of a verb.
VerbAnswers == {<<>>, <<"v">>}

\* The lines typed at a legacy yes/no question.
ConfirmLines == {"yes", "YES", "y", "no", ""}

\* str.lower() on those lines
lower(l) == IF l = "YES" THEN "yes" ELSE l

(***************************************************************************)
(* The exception handlers.                                                 *)
(***************************************************************************)
AgentRegistrarErrors ==
    {"ConfigurationError", "AuthenticationError", "ServiceError",
     "ValidationError", "InitializationError"}

\* The diagnostic of BaseCommand.run, by except clause.
TyperErrorLine(exc) ==
    IF exc = "ConfigurationError" THEN "error: Configuration error"
    ELSE IF exc \in AgentRegistrarErrors THEN "error: Operation failed"
    ELSE "error: Unexpected error"

\* The diagnostic of the legacy main(), by except clause.
LegacyErrorLine(exc) ==
    IF exc = "ValueError" THEN "log: Configuration error"
    ELSE IF exc = "RuntimeError" THEN "log: SDK Initialization error"
    ELSE "log: An unexpected error occurred"

\* The handler a verb runs under: `auth create` has its own.
ErrorLine(v, exc) ==
    IF v = "auth_create" THEN "error: Failed to create authorization"
    ELSE IF v \in TyperVerbs THEN TyperErrorLine(exc)
    ELSE LegacyErrorLine(exc)

\* The status the process ends with once the handler ran: typer.Exit(1), or
\* main() returning.
ErrorExit(v) == IF v \in TyperVerbs THEN 1 ELSE 0

CancelLine(v) ==
    CASE v \in TyperVerbs -> "Operation cancelled."
      [] v = "rc_unregister_agent" -> "Unregistering agent cancelled."
      [] OTHER -> "Undeployment cancelled."

(***************************************************************************)
(* The statements.                                                         *)
(***************************************************************************)
\* The statement that runs next.
Cur == Head(todo)
Running == todo # <<>> /\ exitCode = -1

\* The statement completes: the verb goes on, or ends with status 0.
Advance ==
    /\ todo' = Tail(todo)
    /\ exitCode' = IF Len(todo) = 1 THEN 0 ELSE exitCode

RunFails_exit_zero(exc) ==
    /\ verbError' = exc
    /\ todo' = <<>>
    /\ output' = Append(output, ErrorLine(verb, exc.type))
    /\ exitCode' = 0

\* A handler that prints the error and returns to the caller of run(), which
\* goes on with what it does after run().
RunFails_returns(exc) ==
    LET after == SelectSeq(todo, LAMBDA st : st.op = "success")
    IN  /\ verbError' = exc
        /\ todo' = after
        /\ output' = Append(output, ErrorLine(verb, exc.type))
        /\ exitCode' = IF after = <<>> THEN ErrorExit(verb) ELSE exitCode

\* An exception reaches the handler: BaseCommand.run prints and exits 1, the
\* legacy main() logs and returns.
RunFails(exc) ==
    /\ verbError' = exc
    /\ todo' = <<>>
    /\ output' = Append(output, ErrorLine(verb, exc.type))
    /\ exitCode' = ErrorExit(verb)

Finish_retry(o) ==
    /\ netCalls' = IF o.kind = "raise" THEN netCalls \o o.calls \o o.calls
                   ELSE netCalls \o o.calls
    /\ IF o.kind = "raise"
       THEN RunFails(o.exc) /\ UNCHANGED execResult
       ELSE /\ execResult' = o.value
            /\ Advance /\ UNCHANGED <<output, verbError>>

\* A service operation ended: its network calls were made; its value is kept
\* or its exception reaches the handler.
Finish(o) ==
    /\ netCalls' = netCalls \o o.calls
    /\ IF o.kind = "raise"
       THEN RunFails(o.exc) /\ UNCHANGED execResult
       ELSE /\ execResult' = o.value
            /\ Advance /\ UNCHANGED <<output, verbError>>

InitVerb ==
    /\ verb \in Verbs
    /\ force \in IF verb \in DestructiveVerbs \cap TyperVerbs THEN BOOLEAN ELSE {FALSE}
    /\ resolver = ProgramOf(verb)
    /\ name = ""
    /\ cli_args \in CliOf(verb)
    /\ \/ fileState = "missing" /\ fileData = EmptyDict
       \/ fileState = "object" /\ verb \in TyperVerbs /\ fileData \in VerbFiles
    /\ fileEntry = Absent
    /\ environ = EmptyDict
    /\ config = Unloaded
    /\ pc = "verb" /\ call = NoCall /\ result = NoResult
    /\ todo = Script(verb)
    /\ resolved = EmptyDict
    /\ confirmed = "unasked" /\ sdkInit = FALSE
    /\ netCalls = <<>> /\ output = <<>>
    /\ execResult = NoValue /\ verbError = NoError /\ exitCode = -1
    /\ RenderIdle /\ history = <<>>

V_typer_confirm_ignored ==
    /\ Running /\ Cur.op = "typer_confirm"
    /\ IF force
       THEN /\ Advance /\ UNCHANGED <<confirmed, output>>
       ELSE \E answer \in {"yes", "no", "abort"} :
              /\ confirmed' = answer
              /\ Advance /\ UNCHANGED output
    /\ UNCHANGED <<inputVars, config, pc, call, result, verb, force, resolved,
                   sdkInit, netCalls, execResult, verbError, rendered, parsed, history>>

\* if not force: confirm = typer.confirm(...); if not confirm: echo, Exit()
V_typer_confirm ==
    /\ Running /\ Cur.op = "typer_confirm"
    /\ IF force
       THEN /\ Advance /\ UNCHANGED <<confirmed, output>>
       ELSE \E answer \in {"yes", "no", "abort"} :
              /\ confirmed' = answer
              /\ CASE answer = "yes" -> Advance /\ UNCHANGED output
                   [] answer = "no" ->
                        /\ output' = Append(output, CancelLine(verb))
                        /\ todo' = <<>> /\ exitCode' = 0
                   [] answer = "abort" ->
                        /\ output' = Append(output, "Aborted.")
                        /\ todo' = <<>> /\ exitCode' = 1
    /\ UNCHANGED <<inputVars, config, pc, call, result, verb, force, resolved,
                   sdkInit, netCalls, execResult, verbError, rendered, parsed, history>>

\* confirmation = input(...); if confirmation.lower() == "yes": ... else: print(...)
V_input_confirm ==
    /\ Running /\ Cur.op = "input_confirm"
    /\ \E line \in ConfirmLines :
         IF lower(line) = "yes"
         THEN /\ confirmed' = "yes" /\ Advance /\ UNCHANGED output
         ELSE /\ confirmed' = "no"
              /\ output' = Append(output, CancelLine(verb))
              /\ todo' = <<>> /\ exitCode' = 0
    /\ UNCHANGED <<inputVars, config, pc, call, result, verb, force, resolved,
                   sdkInit, netCalls, execResult, verbError, rendered, parsed, history>>

\* refresh: if not new_auth_id: typer.echo(...)
V_note ==
    /\ Running /\ Cur.op = "note"
    /\ output' = IF Truthy(getattr(cli_args, Cur.key)) THEN output
                 ELSE Append(output, "No new authorization ID provided.")
    /\ Advance
    /\ UNCHANGED <<inputVars, config, pc, call, result, verb, force, resolved,
                   confirmed, sdkInit, netCalls, execResult, verbError,
                   rendered, parsed, history>>

\* execute: if not agent_id: raise ValueError(...)
V_check ==
    /\ Running /\ Cur.op = "check"
    /\ IF Truthy(getattr(cli_args, Cur.key))
       THEN Advance /\ UNCHANGED <<output, verbError>>
       ELSE RunFails(Exc("ValueError", {"param"}))
    /\ UNCHANGED <<inputVars, config, pc, call, result, verb, force, resolved,
                   confirmed, sdkInit, netCalls, execResult, rendered, parsed, history>>

\* main(): config = load_config(args.config)
V_load_config ==
    /\ Running /\ Cur.op = "load_config"
    /\ config' = RC_load_config(fileState, "project_id", fileEntry)
    /\ Advance
    /\ UNCHANGED <<inputVars, pc, call, result, verb, force, resolved, confirmed,
                   sdkInit, netCalls, output, execResult, verbError, rendered, parsed, history>>

\* One get_parameter call of the verb, by the resolver of its program.
V_get_parameter ==
    /\ Running /\ Cur.op = "param"
    /\ \E answer \in VerbAnswers :
         LET cfg == IF resolver = "ConfigManager"
                    THEN CM_load_file(config, fileState, fileData)
                    ELSE config
             res == CASE resolver = "ConfigManager" ->
                            CM_get_parameter(cli_args, cfg.data, environ, Cur.name,
                                             Cur.prompt, answer, Cur.default, Cur.required)
                      [] resolver = "registry_client" ->
                            RC_get_parameter(cfg.data, cli_args, Cur.name,
                                             Cur.prompt, answer, Cur.default, Cur.required)
                      [] resolver = "engine_client" ->
                            EC_get_parameter(cli_args, environ, Cur.name,
                                             Cur.prompt, answer, Cur.default, Cur.required)
         IN /\ config' = cfg
            /\ IF res.kind = "raise"
               THEN RunFails(Exc(res.exc, {"param"})) /\ UNCHANGED resolved
               ELSE /\ resolved' = With(resolved, Cur.key, res.value)
                    /\ Advance /\ UNCHANGED <<output, verbError>>
    /\ UNCHANGED <<inputVars, pc, call, result, verb, force, confirmed, sdkInit,
                   netCalls, execResult, rendered, parsed, history>>

\* The keywords a typer command passes by name next to **config, with the
\* values it took from the command line.
Explicit(v, op) ==
    CASE v \in {"registry_get", "registry_update", "registry_delete"} ->
            [agent_id |-> cli_args.agent_id]
      [] v = "registry_get_by_name" -> [display_name |-> cli_args.display_name]
      [] op = "auth.create_authorization" ->
            [scopes |-> cli_args.scopes,
             authorization_id |-> IF v = "auth_refresh" THEN cli_args.new_auth_id
                                  ELSE cli_args.authorization_id]
      [] op = "auth.delete_authorization" ->
            [authorization_id |-> IF v = "auth_refresh" THEN cli_args.old_auth_id
                                  ELSE cli_args.authorization_id]
      [] OTHER -> EmptyDict

\* The keywords of the call: the dicts spread into it and the explicit ones.
Kwargs(v, op) == Merge(resolved, Explicit(v, op))

\* service.initialize(**config) / initialize_vertex_ai(project_id, location)
V_initialize ==
    /\ Running /\ Cur.op = "init"
    /\ IF verb \in TyperVerbs
          /\ ~Binds(DOMAIN resolved, Parameters("engine.initialize"),
                    RequiredParameters("engine.initialize"))
       THEN RunFails(Exc("TypeError", {})) /\ UNCHANGED sdkInit
       ELSE IF verb \in RcEngineVerbs /\ ~Truthy(resolved["project_id"])
       THEN /\ output' = Append(output, "log: Project ID is required")
            /\ todo' = <<>> /\ exitCode' = 0
            /\ UNCHANGED <<sdkInit, verbError>>
       ELSE \E ok \in BOOLEAN :
              LET r == initialize(verb \in LegacyVerbs, resolved["project_id"], ok)
              IN /\ sdkInit' = IF r.changed THEN r.initialized ELSE sdkInit
                 /\ IF r.exc = NoError
                    THEN Advance /\ UNCHANGED <<output, verbError>>
                    ELSE RunFails(r.exc)
    /\ UNCHANGED <<inputVars, config, pc, call, result, verb, force, resolved,
                   confirmed, netCalls, execResult, rendered, parsed, history>>

\* A command calls an operation of AgentRegistryService:
\* service.<op>(<explicit keywords>, **config[, **agent_config])
V_registry_call ==
    /\ Running /\ Cur.op = "call" /\ Cur.key \in RegistryOps
    /\ IF ~Binds(DOMAIN Kwargs(verb, Cur.key), Parameters(Cur.key),
                 RequiredParameters(Cur.key))
       THEN RunFails(Exc("TypeError", {})) /\ UNCHANGED <<netCalls, execResult>>
       ELSE \E outcome \in TokenOutcomes, resp \in Responses :
              Finish(ServiceCall(Cur.key, Kwargs(verb, Cur.key), outcome, resp))
    /\ UNCHANGED <<inputVars, config, pc, call, result, verb, force, resolved,
                   confirmed, sdkInit, rendered, parsed, history>>

\* A command calls an operation of AuthorizationService.
V_auth_call ==
    /\ Running /\ Cur.op = "call" /\ Cur.key \in AuthOps
    /\ IF ~Binds(DOMAIN Kwargs(verb, Cur.key), Parameters(Cur.key),
                 RequiredParameters(Cur.key))
       THEN RunFails(Exc("TypeError", {})) /\ UNCHANGED <<netCalls, execResult>>
       ELSE \E outcome \in TokenOutcomes, resp \in Responses :
              Finish(ServiceCall(Cur.key, Kwargs(verb, Cur.key), outcome, resp))
    /\ UNCHANGED <<inputVars, config, pc, call, result, verb, force, resolved,
                   confirmed, sdkInit, rendered, parsed, history>>

\* A typer command calls an operation of AgentEngineService; a legacy client
\* calls the function of agent_engine_manager.
V_engine_call ==
    /\ Running /\ Cur.op = "call" /\ Cur.key \in EngineOps
    /\ \E ok \in BOOLEAN :
         Finish(IF verb \in TyperVerbs THEN EngineCall(Cur.key, sdkInit, ok)
                ELSE ManagerCall(Cur.key, sdkInit, ok))
    /\ UNCHANGED <<inputVars, config, pc, call, result, verb, force, resolved,
                   confirmed, sdkInit, rendered, parsed, history>>

\* as_registry_client calls a function of as_agent_registry_service with the
\* parameters it resolved.  update_agent runs curl a second time.
V_ars_call ==
    /\ Running /\ Cur.op = "call" /\ Cur.key \in ArsOps
    /\ \E outcome \in TokenOutcomes, curl \in CurlResults :
         \E outcome2 \in IF Cur.key = "ars.update_agent" THEN TokenOutcomes ELSE {outcome},
            curl2 \in IF Cur.key = "ars.update_agent" THEN CurlResults ELSE {curl} :
           Finish(ArsCall(Cur.key, resolved, outcome, curl, outcome2, curl2))
    /\ UNCHANGED <<inputVars, config, pc, call, result, verb, force, resolved,
                   confirmed, sdkInit, rendered, parsed, history>>

\* if not created_auth_id and result.get('name'): ...   (create, refresh)
V_extract ==
    /\ Running /\ Cur.op = "extract"
    /\ IF ~Truthy(getattr(cli_args, Cur.key)) /\ ~IsDict(execResult)
       THEN RunFails(Exc("AttributeError", {}))
       ELSE Advance /\ UNCHANGED <<output, verbError>>
    /\ UNCHANGED <<inputVars, config, pc, call, result, verb, force, resolved,
                   confirmed, sdkInit, netCalls, execResult, rendered, parsed, history>>

\* refresh: return {"created": ..., "deleted": ..., "message": ...}
V_compose ==
    /\ Running /\ Cur.op = "compose"
    /\ execResult' = "object"
    /\ Advance
    /\ UNCHANGED <<inputVars, config, pc, call, result, verb, force, resolved,
                   confirmed, sdkInit, netCalls, output, verbError, rendered, parsed, history>>

\* BaseCommand.run: if result: print_json(result); as_registry_client:
\* print(json.dumps(result, indent=2)); agent_engine_client: print(result)
V_print ==
    /\ Running /\ Cur.op = "print"
    /\ output' = IF verb \in TyperVerbs /\ ~ResultTruthy(execResult) THEN output
                 ELSE Append(output, IF verb \in EcVerbs THEN "text" ELSE "json")
    /\ Advance
    /\ UNCHANGED <<inputVars, config, pc, call, result, verb, force, resolved,
                   confirmed, sdkInit, netCalls, execResult, verbError,
                   rendered, parsed, history>>

\* auth create: print_json(result)
V_print_json ==
    /\ Running /\ Cur.op = "print_json"
    /\ output' = Append(output, "json")
    /\ Advance
    /\ UNCHANGED <<inputVars, config, pc, call, result, verb, force, resolved,
                   confirmed, sdkInit, netCalls, execResult, verbError,
                   rendered, parsed, history>>

\* print_success(f"... deleted successfully.") / (f"... created successfully.")
V_print_success ==
    /\ Running /\ Cur.op = "success"
    /\ output' = Append(output, IF verb = "auth_create" THEN "created successfully."
                                ELSE "deleted successfully.")
    /\ Advance
    /\ UNCHANGED <<inputVars, config, pc, call, result, verb, force, resolved,
                   confirmed, sdkInit, netCalls, execResult, verbError,
                   rendered, parsed, history>>

NextVerb ==
    \/ V_typer_confirm
    \/ V_input_confirm
    \/ V_note
    \/ V_check
    \/ V_load_config
    \/ V_get_parameter
    \/ V_initialize
    \/ V_registry_call
    \/ V_auth_call
    \/ V_engine_call
    \/ V_ars_call
    \/ V_extract
    \/ V_compose
    \/ V_print
    \/ V_print_json
    \/ V_print_success

SpecVerb == InitVerb /\ [][NextVerb]_vars


(***************************************************************************)
(* What the inputs of the finished call were.                              *)
(***************************************************************************)
Done == pc = "done"

CliValue == getattr(cli_args, name)
CliGiven == CliValue # None

\* The JSON object of the config file holds a string for the name.
FileSupplies == fileState = "object" /\ fileEntry.t = "str"

\* The loaded configuration holds a non-null value for the name.
ConfigHasValue == name \in DOMAIN config.data /\ config.data[name] # None

\* The loaded configuration makes the config step return.
ConfigYields ==
    CASE resolver = "ConfigManager" -> ConfigHasValue
      [] resolver = "registry_client" -> name \in DOMAIN config.data
      [] OTHER -> FALSE

\* The environment step returns.
EnvYields ==
    CASE resolver = "ConfigManager" -> env_name(name) \in DOMAIN environ
      [] resolver = "engine_client" -> name = "project_id" /\ Truthy(getenv(environ, GCP))
      [] OTHER -> FALSE

NothingFromSources == ~CliGiven /\ ~ConfigYields /\ ~EnvYields

PromptConfigured == Truthy(call.prompt)

AllBlank(s) == \A i \in 1..Len(s) : s[i] = " "

\* The prompt was read and the line typed was empty or blank.
BlankAnswer == call.line # Absent /\ AllBlank(call.line.s)

\* Precedence rank of a source.
Rank(src) ==
    CASE src = "cli" -> 1 [] src = "config" -> 2 [] src = "env" -> 3
      [] src = "prompt" -> 4 [] src = "default" -> 5

(***************************************************************************)
(* C1. For every name, a non-null command-line value is what get_parameter *)
(* returns, whatever the config file, the environment, the prompt answer   *)
(* and the default hold; in all three resolvers.                           *)
(***************************************************************************)
Thm_C1_CliWins ==
    (Done /\ CliGiven) =>
        /\ result.kind = "return"
        /\ result.value = CliValue
        /\ result.reads = 0

Wit_C1_CliWins ==
    /\ Done /\ resolver = "ConfigManager"
    /\ CliValue = Str(<<"c">>)
    /\ FileSupplies /\ name \in GlobalConfigFields
    /\ env_name(name) \in DOMAIN environ
    /\ PromptConfigured /\ call.default # None
    /\ result.value = Str(<<"c">>)

(***************************************************************************)
(* C2. With no command-line value, a value in the loaded config file is    *)
(* returned, whatever the environment and the default hold, and no prompt  *)
(* is read (ConfigManager and the registry client; the engine client has   *)
(* no config file).                                                        *)
(***************************************************************************)
Thm_C2_ConfigWins ==
    (Done /\ ~CliGiven /\ resolver \in {"ConfigManager", "registry_client"}) =>
        /\ ConfigHasValue =>
              /\ result.kind = "return"
              /\ result.value = config.data[name]
              /\ result.reads = 0
              /\ call.line = Absent
        /\ (FileSupplies /\ (resolver = "registry_client" \/ name \in GlobalConfigFields)) =>
              /\ result.kind = "return"
              /\ result.value = fileEntry

Wit_C2_ConfigWins ==
    /\ Done /\ resolver = "ConfigManager" /\ ~CliGiven
    /\ fileEntry = Str(<<"f">>) /\ name = "project_id"
    /\ env_name(name) \in DOMAIN environ /\ environ[env_name(name)] = Str(<<"e">>)
    /\ PromptConfigured /\ call.default = Str(<<"d">>)
    /\ result.value = Str(<<"f">>)

(***************************************************************************)
(* C3. ConfigManager.get_parameter: for every name, api_location and       *)
(* re_location included, when neither the command line nor the config      *)
(* file supplies the name and AGENTSPACE_<NAME> is set, the environment    *)
(* value is returned in preference to the prompt and the default.          *)
(***************************************************************************)
Cex_C3_EnvBeforeDefault ==
    (Done /\ resolver = "ConfigManager" /\ ~CliGiven /\ ~FileSupplies
          /\ env_name(name) \in DOMAIN environ) =>
        /\ result.kind = "return"
        /\ result.value = environ[env_name(name)]

(***************************************************************************)
(* C4. When the command line, the config file and the environment yield    *)
(* nothing and no prompt is configured, get_parameter returns the default  *)
(* if one is set, also when required is true, and returns None without     *)
(* raising when no default is set and required is false (ConfigManager     *)
(* and the registry client).                                               *)
(***************************************************************************)
Thm_C4_DefaultOrNone ==
    (Done /\ resolver \in {"ConfigManager", "registry_client"}
          /\ NothingFromSources /\ ~PromptConfigured) =>
        /\ call.default # None =>
              (result.kind = "return" /\ result.value = call.default)
        /\ (call.default = None /\ ~call.required) =>
              (result.kind = "return" /\ result.value = None)
        /\ result.reads = 0

Wit_C4_DefaultOrNone ==
    /\ Done /\ resolver = "ConfigManager"
    /\ NothingFromSources /\ ~PromptConfigured
    /\ call.required /\ call.default = Str(<<"d">>)
    /\ result.kind = "return" /\ result.value = Str(<<"d">>)

(***************************************************************************)
(* C5. A required parameter that no source yields (command line, config    *)
(* file, environment, an empty answer at the prompt, no default) fails     *)
(* with a MissingParameterError, an error kind of its own, whose message   *)
(* names the parameter; no value is returned.                              *)
(***************************************************************************)
Cex_C5_MissingParameterError ==
    (Done /\ resolver = "ConfigManager" /\ call.required /\ NothingFromSources
          /\ (~PromptConfigured \/ BlankAnswer) /\ call.default = None) =>
        /\ result.kind = "raise"
        /\ result.exc = "MissingParameterError"
        /\ result.msgParam = name

(***************************************************************************)
(* C6. In one get_parameter call the prompt is read only when a prompt     *)
(* string was supplied and the command line, the config file and the       *)
(* environment yielded nothing, and then exactly once; the sources are     *)
(* consulted in precedence order, none twice, and none after the one that  *)
(* yielded the value.                                                      *)
(***************************************************************************)
Thm_C6_OneReadInOrder ==
    Done =>
        /\ result.reads \in {0, 1}
        /\ result.reads = 1 <=> (PromptConfigured /\ NothingFromSources)
        /\ result.reads = Cardinality({i \in 1..Len(result.consulted) :
                                          result.consulted[i] = "prompt"})
        /\ (call.line # Absent) <=> (result.reads = 1)
        /\ \A i \in 1..Len(result.consulted), j \in 1..Len(result.consulted) :
              i < j => Rank(result.consulted[i]) < Rank(result.consulted[j])
        /\ result.src # "none" =>
              result.consulted[Len(result.consulted)] = result.src

Wit_C6_OneReadInOrder ==
    /\ Done /\ resolver = "ConfigManager"
    /\ result.reads = 1 /\ BlankAnswer
    /\ result.consulted = <<"cli", "config", "env", "prompt", "default">>

(***************************************************************************)
(* C7. When the prompt is reached and the answer is empty or only          *)
(* whitespace, the answer is no value: the default is returned if set,     *)
(* None if no default and not required, and the call raises if no default  *)
(* and required (ConfigManager and the registry client).                   *)
(***************************************************************************)
Thm_C7_BlankAnswerFallsThrough ==
    (Done /\ resolver \in {"ConfigManager", "registry_client"}
          /\ PromptConfigured /\ NothingFromSources
          /\ call.line # Absent /\ AllBlank(call.line.s)) =>
        IF call.default # None
        THEN result.kind = "return" /\ result.value = call.default
        ELSE IF call.required
        THEN result.kind = "raise"
        ELSE result.kind = "return" /\ result.value = None

Wit_C7_BlankAnswerFallsThrough ==
    /\ Done /\ resolver = "registry_client"
    /\ call.line = Str(<<" ">>)
    /\ call.default = Str(<<"d">>)
    /\ result.value = Str(<<"d">>)

(***************************************************************************)
(* C8 as stated. An empty string held by the command line, the config file *)
(* or the environment is skipped, so get_parameter never returns an empty  *)
(* string taken from one of those sources.                                 *)
(***************************************************************************)
Cex_C8_EmptySkipped ==
    (Done /\ result.kind = "return" /\ result.src \in {"cli", "config", "env"}) =>
        result.value # Str(<<>>)

(***************************************************************************)
(* C8 as amended. Only null is skipped at the command line, the config     *)
(* file and ConfigManager's environment lookup: an empty string held by    *)
(* the command line is returned by all three resolvers, one held by the    *)
(* config file by ConfigManager and the registry client, one held by       *)
(* AGENTSPACE_<NAME> by ConfigManager.  An empty string is skipped only at *)
(* the prompt and in the engine client's GOOGLE_CLOUD_PROJECT lookup.      *)
(***************************************************************************)
Thm_C8_OnlyNullSkipped ==
    Done =>
        /\ CliValue = Str(<<>>) =>
              (result.kind = "return" /\ result.value = Str(<<>>) /\ result.src = "cli")
        /\ CliValue = None => result.src # "cli"
        /\ (~CliGiven /\ resolver \in {"ConfigManager", "registry_client"}
                      /\ name \in DOMAIN config.data
                      /\ config.data[name] = Str(<<>>)) =>
              (result.kind = "return" /\ result.value = Str(<<>>) /\ result.src = "config")
        /\ (~CliGiven /\ ~ConfigYields /\ resolver = "ConfigManager"
                      /\ getenv(environ, env_name(name)) = Str(<<>>)) =>
              (result.kind = "return" /\ result.value = Str(<<>>) /\ result.src = "env")
        /\ (resolver = "engine_client" /\ getenv(environ, GCP) = Str(<<>>)) =>
              result.src # "env"
        /\ result.src = "prompt" => result.value # Str(<<>>)

Wit_C8_OnlyNullSkipped ==
    /\ Done /\ resolver = "registry_client"
    /\ CliValue = Str(<<>>)
    /\ fileEntry = Str(<<"f">>)
    /\ result.kind = "return" /\ result.value = Str(<<>>)

(***************************************************************************)
(* C9. load_config does not raise for a config path that does not exist    *)
(* nor for a file that is not valid JSON: it yields the empty              *)
(* configuration, and the get_parameter call that follows resolves exactly *)
(* as with an empty JSON object {} loaded.                                 *)
(***************************************************************************)
\* What loading the file {} gives, and the resolution with it.
ConfigOfEmptyObject ==
    IF resolver = "ConfigManager"
    THEN CM_load_config(Unloaded, "object", name, Absent)
    ELSE RC_load_config("object", name, Absent)

LineOrEmpty == IF call.line = Absent THEN <<>> ELSE call.line.s

ResultWithEmptyObject ==
    IF resolver = "ConfigManager"
    THEN CM_get_parameter(cli_args, ConfigOfEmptyObject.data, environ, name,
                          call.prompt, LineOrEmpty, call.default, call.required)
    ELSE RC_get_parameter(ConfigOfEmptyObject.data, cli_args, name,
                          call.prompt, LineOrEmpty, call.default, call.required)

DeleteIssued ==
    \E i \in 1..Len(netCalls) :
        netCalls[i].kind \in {"request", "sdk"}
        /\ netCalls[i].method \in {"DELETE", "delete"}

Thm_C10_DeleteNeedsConsent ==
    /\ (verb \in DestructiveVerbs /\ DeleteIssued) => (force \/ confirmed = "yes")
    /\ confirmed = "no" =>
          /\ netCalls = <<>>
          /\ output # <<>> /\ output[Len(output)] = CancelLine(verb)
          /\ todo = <<>>
          /\ execResult = NoValue
    /\ confirmed = "abort" => netCalls = <<>>

Wit_C10_DeleteNeedsConsent ==
    /\ verb = "engine_delete" /\ ~force
    /\ confirmed = "yes"
    /\ DeleteIssued
    /\ exitCode = 0

(***************************************************************************)
(* The network calls of a verb.                                            *)
(***************************************************************************)
Calls == 1..Len(netCalls)
IsRequest(i) == netCalls[i].kind = "request"
IsServiceCall(i) == netCalls[i].kind \in {"request", "sdk"}
TokenFailedAt(i) == netCalls[i].kind = "token" /\ netCalls[i].outcome = Failed

(***************************************************************************)
(* C11. When the access-token provider cannot obtain a token, the failure  *)
(* surfaces as an AuthenticationError and no HTTP request is issued after  *)
(* it; no request is ever sent whose bearer token is null or empty.        *)
(* The legacy registry client does not raise: its get_access_token returns *)
(* None and the function answers with an error dict, which is printed as   *)
(* the result.                                                             *)
(***************************************************************************)
Cex_C11_TokenFailureIsAuthenticationError ==
    /\ \A i \in Calls :
         TokenFailedAt(i) =>
            /\ verbError.type = "AuthenticationError"
            /\ \A j \in Calls : j > i => ~IsRequest(j)
    /\ \A i \in Calls : IsRequest(i) => Truthy(netCalls[i].bearer)

(***************************************************************************)
(* The operations of the two HTTP services on their own: one operation is  *)
(* called once, under every token outcome and every answer of the server.  *)
(***************************************************************************)
\* The arguments the operation is called with.  The two locations are equal
\* or differ; an optional field is None, empty or set.
SvcLocations == { [api |-> GLOBAL, re |-> GLOBAL],
                  [api |-> Str(<<"eu">>), re |-> Str(<<"us">>)] }

SvcUpdateValues(op) ==
    IF op = "registry.update_agent"
    THEN [display_name : {None, Str(<<>>), Str(<<"v">>)},
          description : {None, Str(<<"v">>)},
          tool_description : {None, Str(<<"v">>)},
          adk_deployment_id : {None, Str(<<"v">>)},
          auth_id : {None, Str(<<>>), Str(<<"v">>)},
          icon_uri : {None, Str(<<"v">>)}]
    ELSE { Const(UpdateFields, None), Const(UpdateFields, Str(<<"v">>)),
           With(Const(UpdateFields, None), "auth_id", Str(<<"v">>)) }

SvcArgs(op) ==
    CASE op \in {"registry.create_agent", "ars.create_agent"} ->
            { [project_id |-> Str(<<"p">>), app_id |-> Str(<<"a">>),
               display_name |-> Str(<<"n">>), description |-> Str(<<"d">>),
               tool_description |-> Str(<<"t">>), adk_deployment_id |-> Str(<<"k">>),
               auth_id |-> au, icon_uri |-> ic,
               re_location |-> l.re, api_location |-> l.api] :
                au \in {None, Str(<<>>), Str(<<"v">>)}, ic \in {None, Str(<<"v">>)},
                l \in SvcLocations }
      [] op \in {"registry.update_agent", "ars.update_agent"} ->
            { Merge([agent_id |-> Str(<<"x">>), project_id |-> Str(<<"p">>),
                     app_id |-> Str(<<"a">>), re_location |-> l.re,
                     api_location |-> l.api], fields) :
                fields \in SvcUpdateValues(op), l \in SvcLocations }
      [] op \in {"registry.list_agents", "ars.list_agents"} ->
            { [project_id |-> Str(<<"p">>), app_id |-> Str(<<"a">>),
               api_location |-> GLOBAL] }
      [] op \in {"registry.get_agent_by_display_name", "ars.get_agent_by_display_name"} ->
            { [display_name |-> Str(<<"n">>), project_id |-> Str(<<"p">>),
               app_id |-> Str(<<"a">>), api_location |-> GLOBAL] }
      [] op \in RegistryOps \cup ArsOps ->
            { [agent_id |-> Str(<<"x">>), project_id |-> Str(<<"p">>),
               app_id |-> Str(<<"a">>), api_location |-> GLOBAL] }
      [] op = "auth.list_authorizations" ->
            { [project_id |-> Str(<<"p">>), location |-> US] }
      [] op = "auth.create_authorization" ->
            { [project_id |-> Str(<<"p">>), location |-> US, authorization_id |-> id,
               scopes |-> Str(<<"email">>)] : id \in {None, Str(<<"x">>)} }
      [] op = "auth.delete_authorization" ->
            { [project_id |-> Str(<<"p">>), location |-> US,
               authorization_id |-> Str(<<"x">>)] }

InitSvc ==
    /\ resolver = "ConfigManager"
    /\ name \in HttpOps \cup ArsOps
    /\ cli_args = EmptyDict
    /\ fileState = "missing" /\ fileEntry = Absent
    /\ environ = EmptyDict /\ fileData = EmptyDict
    /\ config = Unloaded
    /\ pc = "svc" /\ call = NoCall /\ result = NoResult
    /\ verb = "none" /\ force = FALSE /\ todo = <<>>
    /\ resolved \in SvcArgs(name)
    /\ confirmed = "unasked" /\ sdkInit = FALSE /\ netCalls = <<>>
    /\ output = <<>> /\ execResult = NoValue /\ verbError = NoError /\ exitCode = -1
    /\ RenderIdle /\ history = <<>>

\* What the operation returned is kept in execResult, what it raised in
\* verbError.
SvcEnds(o) ==
    /\ netCalls' = o.calls
    /\ execResult' = o.value
    /\ verbError' = o.exc
    /\ pc' = IF o.kind = "return" THEN "returned" ELSE "raised"
    /\ UNCHANGED <<inputVars, config, call, result, verb, force, todo, resolved,
                   confirmed, sdkInit, output, exitCode, rendered, parsed, history>>

\* service.<name>(**resolved) on AgentRegistryService / AuthorizationService
Svc_call ==
    /\ pc = "svc" /\ name \in HttpOps
    /\ \E outcome \in TokenOutcomes, resp \in Responses :
         SvcEnds(ServiceCall(name, resolved, outcome, resp))

\* The function of as_agent_registry_service, called with the same arguments.
Ars_call ==
    /\ pc = "svc" /\ name \in ArsOps
    /\ \E outcome \in TokenOutcomes, curl \in CurlResults :
         \E outcome2 \in IF name = "ars.update_agent" THEN TokenOutcomes ELSE {outcome},
            curl2 \in IF name = "ars.update_agent" THEN CurlResults ELSE {curl} :
           SvcEnds(ArsCall(name, resolved, outcome, curl, outcome2, curl2))

NextSvc == Svc_call \/ Ars_call

SpecSvc == InitSvc /\ [][NextSvc]_vars

\* The server answered the request of the operation with an HTTP status.
Answered ==
    /\ pc \in {"returned", "raised"} /\ name \in HttpOps
    /\ \E i \in Calls : IsRequest(i) /\ netCalls[i].resp # NoResponse

AnswerStatus == netCalls[Len(netCalls)].resp.status

(***************************************************************************)
(* C12. For every HTTP status and every response body, an operation of     *)
(* AgentRegistryService or AuthorizationService either returns a JSON      *)
(* object for a response that was successful, or raises a ServiceError     *)
(* that carries the status code and the body text; it never returns a      *)
(* value for a failed call.                                                *)
(* The code does so for a status of 400 and above.  A successful status    *)
(* with a body that is not JSON raises a ServiceError that carries only    *)
(* the decoder's message, and one whose body is a JSON array is returned   *)
(* as is or raises AttributeError.                                         *)
(***************************************************************************)
Cex_C12_ObjectOrServiceError ==
    Answered =>
       IF pc = "returned"
       THEN AnswerStatus < 400 /\ IsDict(execResult)
       ELSE /\ verbError.type = "ServiceError"
            /\ {"status", "body"} \subseteq verbError.carries

(***************************************************************************)
(* What a verb has done so far.                                            *)
(***************************************************************************)
Lines == 1..Len(output)
PrintedResult == \E i \in Lines : output[i] \in {"json", "text"}
Pending(ops) == \E i \in 1..Len(todo) : todo[i].op \in ops

\* execute() of a typer command returned a value and run() went past its
\* print statement.
ExecuteReturned ==
    /\ verb \in TyperVerbs
    /\ verbError = NoError
    /\ execResult # NoValue
    /\ ~Pending({"call", "extract", "compose", "print", "print_json"})

(***************************************************************************)
(* C13. Whenever the execute of a verb returns normally, its result is     *)
(* printed to standard output as indented JSON, whatever value the service *)
(* operation returned.                                                     *)
(* BaseCommand.run prints under `if result:`, so an empty JSON object (the *)
(* usual answer to a delete) is not printed.                               *)
(***************************************************************************)
Cex_C13_ResultAlwaysPrinted ==
    ExecuteReturned => PrintedResult

\* An exception ended the verb.
Errored == verbError # NoError

\* The handler printed its diagnostic as the last line.
DiagnosticPrinted ==
    output # <<>> /\ output[Len(output)] = ErrorLine(verb, verbError.type)

(***************************************************************************)
(* C14. Whenever an error of any kind ends a verb (a missing required      *)
(* parameter, a ConfigurationError, AuthenticationError, ServiceError,     *)
(* InitializationError or any other exception), a diagnostic line is       *)
(* printed and the process exits with status 1; the verb never ends with   *)
(* status 0 after an error and never prints a result.                      *)
(* The handlers of the two legacy clients only log the error: main()       *)
(* returns and the process ends with status 0.                             *)
(***************************************************************************)
Cex_C14_ErrorExitsNonZero ==
    Errored =>
       /\ DiagnosticPrinted
       /\ exitCode = 1
       /\ ~PrintedResult

(***************************************************************************)
(* The service calls of a verb: its HTTP requests and SDK calls (the token *)
(* refresh that precedes a request is not one).                            *)
(***************************************************************************)
ServiceCalls == {i \in Calls : IsServiceCall(i)}

\* The call was answered and its answer was accepted.
CallSucceeded(i) ==
    LET r == netCalls[i].resp
    IN  IF "status" \in DOMAIN r
        THEN r.status \in 200..399 /\ (r.body # "not_json" \/ r.status = 204)
        ELSE IF "returncode" \in DOMAIN r
        THEN r.returncode = 0 /\ r.stdout # "not_json"
        ELSE r.ok

\* The verbs that are composites of two operations: refresh creates and then
\* deletes, the legacy update reads the agent and then patches it.
CompositeVerbs == {"auth_refresh", "rc_update_registered_agent"}

\* The statements that read input: a parameter, a confirmation.
InputOps == {"load_config", "param", "check", "typer_confirm", "input_confirm", "note"}

(***************************************************************************)
(* C15 as stated: parameter resolution, then at most one service call,     *)
(* then the print; no verb issues a second service call.                   *)
(* auth refresh and the legacy update issue two.                           *)
(***************************************************************************)
Cex_C15_AtMostOneCall ==
    /\ Cardinality(ServiceCalls) <= 1
    /\ ServiceCalls # {} => ~Pending(InputOps)
    /\ PrintedResult => ~Pending({"call"})

(***************************************************************************)
(* C15, amended.  No input is read once a service call was issued and      *)
(* nothing is called once the result was printed.  A verb issues at most   *)
(* one service call, except the two composites, which issue at most two:   *)
(* the second is a different operation and is issued only when the first   *)
(* succeeded.  No call is issued twice, so a failed call is never retried. *)
(***************************************************************************)
Thm_C15_ResolveCallPrint ==
    /\ ServiceCalls # {} => ~Pending(InputOps)
    /\ PrintedResult => ~Pending({"call"})
    /\ verb \notin CompositeVerbs => Cardinality(ServiceCalls) <= 1
    /\ Cardinality(ServiceCalls) <= 2
    /\ \A i, j \in ServiceCalls :
         i < j => /\ netCalls[i].op # netCalls[j].op
                  /\ CallSucceeded(i)

Wit_C15_ResolveCallPrint ==
    /\ verb = "auth_refresh"
    /\ Cardinality(ServiceCalls) = 2
    /\ PrintedResult
    /\ exitCode = 0

(***************************************************************************)
(* The two requests of auth refresh.                                       *)
(***************************************************************************)
IsCreate(i) == IsRequest(i) /\ netCalls[i].op = "auth.create_authorization"
IsDelete(i) == IsRequest(i) /\ netCalls[i].op = "auth.delete_authorization"

\* The server accepted the request and its body was parsed.
Accepted(i) ==
    /\ netCalls[i].resp # NoResponse
    /\ netCalls[i].resp.status < 400
    /\ netCalls[i].resp.body # "not_json" \/ (IsDelete(i) /\ netCalls[i].resp.status = 204)

(***************************************************************************)
(* C16. In auth refresh the delete of the old authorization is issued only *)
(* after the create of the new one has returned successfully: if the       *)
(* create fails, no delete request is issued.                              *)
(***************************************************************************)
Thm_C16_DeleteAfterCreate ==
    verb = "auth_refresh" =>
       \A j \in Calls :
          IsDelete(j) => \E i \in Calls : i < j /\ IsCreate(i) /\ Accepted(i)

Wit_C16_DeleteAfterCreate ==
    /\ verb = "auth_refresh"
    /\ \E i, j \in Calls : i < j /\ IsCreate(i) /\ Accepted(i) /\ IsDelete(j)
    /\ \E i \in Lines : output[i] = "json"

(***************************************************************************)
(* C17. In auth refresh, if the create succeeds and the delete of the old  *)
(* authorization then fails, no compensating request is issued and the     *)
(* delete is not retried: the failed delete is the last network call, the  *)
(* failure is reported and the process exits with a non-zero status.       *)
(***************************************************************************)
Thm_C17_NoRollback ==
    \A j \in Calls :
       (verb = "auth_refresh" /\ IsDelete(j) /\ ~Accepted(j)) =>
          /\ j = Len(netCalls)
          /\ Cardinality({i \in Calls : IsCreate(i)}) = 1
          /\ Cardinality({i \in Calls : IsDelete(i)}) = 1
          /\ todo = <<>>
          /\ Errored /\ DiagnosticPrinted /\ ~PrintedResult
          /\ exitCode > 0

Wit_C17_NoRollback ==
    /\ verb = "auth_refresh"
    /\ \E i, j \in Calls : i < j /\ IsCreate(i) /\ Accepted(i) /\ IsDelete(j) /\ ~Accepted(j)
    /\ exitCode = 1

(***************************************************************************)
(* C20. For every registry, engine and auth verb the keyword names the     *)
(* command spreads into the service operation are declared parameters of   *)
(* that operation and cover its required ones, so no verb fails at call    *)
(* time with a TypeError and registry list, get, get-by-name and delete    *)
(* reach their HTTP request once project_id and app_id are resolved.       *)
(* get_agent_registry_config always holds re_location, which list_agents,  *)
(* get_agent, get_agent_by_display_name and delete_agent do not declare.   *)
(***************************************************************************)
Cex_C20_KeywordsBind ==
    /\ (Running /\ verb \in TyperVerbs /\ Cur.op = "call" /\ Cur.key \in HttpOps) =>
          Binds(DOMAIN Kwargs(verb, Cur.key), Parameters(Cur.key),
                RequiredParameters(Cur.key))
    /\ (Running /\ verb \in TyperVerbs /\ Cur.op = "init") =>
          Binds(DOMAIN resolved, Parameters("engine.initialize"),
                RequiredParameters("engine.initialize"))
    /\ verbError.type # "TypeError"

(***************************************************************************)
(* JSON text.  A text is a sequence of characters; a symbol of a Python    *)
(* string that is none of the characters below is an ordinary character.   *)
(***************************************************************************)
QUOTE == "\""
BSLASH == "\\"
NL == "\n"
NonAscii == "U+00E9"

escape_none(c) == <<c>>

\* json.dumps, one character of a string (ensure_ascii=True)
escape(c) ==
    CASE c = QUOTE -> <<BSLASH, QUOTE>>
      [] c = BSLASH -> <<BSLASH, BSLASH>>
      [] c = NL -> <<BSLASH, "n">>
      [] c = NonAscii -> <<BSLASH, "u", "00e9">>
      [] OTHER -> <<c>>

RECURSIVE encode_chars(_)
encode_chars(s) == IF s = <<>> THEN <<>> ELSE escape(Head(s)) \o encode_chars(Tail(s))

\* json.dumps of None or of a str
encode_value(v) ==
    IF v = None THEN <<"n", "u", "l", "l">>
    ELSE <<QUOTE>> \o encode_chars(v.s) \o <<QUOTE>>

Spaces(n) == [i \in 1..n |-> " "]

\* The members of an object, one per line, in the order of the dict.
RECURSIVE encode_items(_, _, _)
encode_items(d, keys, indent) ==
    IF keys = <<>> THEN <<>>
    ELSE <<NL>> \o Spaces(indent) \o <<QUOTE, Head(keys), QUOTE, ":", " ">>
         \o encode_value(d[Head(keys)])
         \o (IF Len(keys) > 1 THEN <<",">> ELSE <<>>)
         \o encode_items(d, Tail(keys), indent)

\* json.dumps(d, indent=indent) of a dict of strings and None; `keys` is the
\* insertion order of d.
dumps(d, keys, indent) ==
    IF keys = <<>> THEN <<"{", "}">>
    ELSE <<"{">> \o encode_items(d, keys, indent) \o <<NL, "}">>

ParseError == [ok |-> FALSE, value |-> EmptyDict, rest |-> <<>>]
Parsed(v, rest) == [ok |-> TRUE, value |-> v, rest |-> rest]

RECURSIVE skip_ws(_)
skip_ws(s) == IF s # <<>> /\ Head(s) \in {" ", NL} THEN skip_ws(Tail(s)) ELSE s

\* The characters of a JSON string up to its closing quote.
RECURSIVE parse_string(_, _)
parse_string(s, acc) ==
    IF s = <<>> THEN ParseError
    ELSE IF Head(s) = QUOTE THEN Parsed(acc, Tail(s))
    ELSE IF Head(s) = NL THEN ParseError                    \* control character
    ELSE IF Head(s) # BSLASH THEN parse_string(Tail(s), Append(acc, Head(s)))
    ELSE IF Len(s) < 2 THEN ParseError
    ELSE IF s[2] = QUOTE THEN parse_string(SubSeq(s, 3, Len(s)), Append(acc, QUOTE))
    ELSE IF s[2] = BSLASH THEN parse_string(SubSeq(s, 3, Len(s)), Append(acc, BSLASH))
    ELSE IF s[2] = "n" THEN parse_string(SubSeq(s, 3, Len(s)), Append(acc, NL))
    ELSE IF s[2] = "u" /\ Len(s) >= 3 /\ s[3] = "00e9"
    THEN parse_string(SubSeq(s, 4, Len(s)), Append(acc, NonAscii))
    ELSE ParseError

\* A value: null or a string.
parse_value(s) ==
    IF Len(s) >= 4 /\ SubSeq(s, 1, 4) = <<"n", "u", "l", "l">>
    THEN Parsed(None, SubSeq(s, 5, Len(s)))
    ELSE IF s # <<>> /\ Head(s) = QUOTE
    THEN LET r == parse_string(Tail(s), <<>>)
         IN IF r.ok THEN Parsed(Str(r.value), r.rest) ELSE ParseError
    ELSE ParseError

\* The members of an object, after "{" or ",".
RECURSIVE parse_members(_, _)
parse_members(s, d) ==
    LET s1 == skip_ws(s)
        k == IF s1 # <<>> /\ Head(s1) = QUOTE THEN parse_string(Tail(s1), <<>>)
             ELSE ParseError
        s2 == skip_ws(k.rest)
        v == IF s2 # <<>> /\ Head(s2) = ":" THEN parse_value(skip_ws(Tail(s2)))
             ELSE ParseError
        s3 == skip_ws(v.rest)
    IN  IF ~k.ok \/ Len(k.value) # 1 \/ ~v.ok \/ s3 = <<>> THEN ParseError
        ELSE LET d2 == [x \in DOMAIN d \cup {k.value[1]} |->
                          IF x = k.value[1] THEN v.value ELSE d[x]]
             IN IF Head(s3) = "," THEN parse_members(Tail(s3), d2)
                ELSE IF Head(s3) = "}" /\ skip_ws(Tail(s3)) = <<>> THEN Parsed(d2, <<>>)
                ELSE ParseError

\* json.loads of the text of an object of strings and nulls
json_loads(text) ==
    LET s == skip_ws(text)
    IN  IF s = <<>> \/ Head(s) # "{" THEN ParseError
        ELSE LET s1 == skip_ws(Tail(s))
             IN IF s1 # <<>> /\ Head(s1) = "}"
                THEN (IF skip_ws(Tail(s1)) = <<>> THEN Parsed(EmptyDict, <<>>)
                      ELSE ParseError)
                ELSE parse_members(s1, EmptyDict)

\* format_json(data, indent=2) of a dict: json.dumps(data, indent=indent)
format_json(data, keys) == dumps(data, keys, 2)

(***************************************************************************)
(* The derived builders of ConfigManager on their own: a builder resolves  *)
(* its fields in order; the dict it built is rendered by format_json and   *)
(* the text is parsed back.                                                *)
(***************************************************************************)
Builders == {"get_agent_registry_config", "get_agent_engine_config", "get_agent_config"}

BuilderScript(b) ==
    CASE b = "get_agent_registry_config" -> get_agent_registry_config
      [] b = "get_agent_engine_config" -> get_agent_engine_config
      [] b = "get_agent_config" -> get_agent_config

\* The keys of the dict a builder returns, in order.
KeysOf(b) == [i \in 1..Len(BuilderScript(b)) |-> BuilderScript(b)[i].key]

\* A config file whose values need escaping, or read like a JSON literal.
TrickyFile ==
    [ars_display_name |-> Str(<<"n", "u", "l", "l">>),
     description |-> Str(<<"a", QUOTE, BSLASH, "b">>),
     tool_description |-> Str(<<BSLASH, "n", NL, NonAscii>>),
     adk_deployment_id |-> Str(<<" ", "}", ",", ":">>),
     icon_uri |-> Str(<<>>),
     project_id |-> Str(<<"{", QUOTE>>)]

BuildFiles == {FullFile, NullLocationFile, TrickyFile}

BuildClis ==
    { [project_id |-> p, app_id |-> a, api_location |-> l] :
        p \in {None, Str(<<"p1">>)}, a \in {None, Str(<<"a">>)},
        l \in {None, GLOBAL, Str(<<"eu">>)} }

BuildEnvs == {EmptyDict, ("AGENTSPACE_AUTH_ID" :> Str(<<"e">>))}

InitBuild ==
    /\ resolver = "ConfigManager"
    /\ name \in Builders
    /\ cli_args \in BuildClis
    /\ \/ fileState = "missing" /\ fileData = EmptyDict
       \/ fileState = "object" /\ fileData \in BuildFiles
    /\ fileEntry = Absent
    /\ environ \in BuildEnvs
    /\ config = Unloaded
    /\ pc = "build" /\ call = NoCall /\ result = NoResult
    /\ verb = "none" /\ force = FALSE
    /\ todo = BuilderScript(name)
    /\ resolved = EmptyDict
    /\ confirmed = "unasked" /\ sdkInit = FALSE /\ netCalls = <<>>
    /\ output = <<>> /\ execResult = NoValue /\ verbError = NoError /\ exitCode = -1
    /\ RenderIdle /\ history = <<>>

\* The next field of the builder: "<key>": self.get_parameter(<name>, ...)
B_get_parameter ==
    /\ pc = "build" /\ todo # <<>>
    /\ LET cfg == CM_load_file(config, fileState, fileData)
           res == CM_get_parameter(cli_args, cfg.data, environ, Cur.name,
                                   Cur.prompt, <<>>, Cur.default, Cur.required)
       IN /\ config' = cfg
          /\ IF res.kind = "raise"
             THEN /\ verbError' = Exc(res.exc, {"param"})
                  /\ todo' = <<>> /\ pc' = "raised"
                  /\ UNCHANGED resolved
             ELSE /\ resolved' = With(resolved, Cur.key, res.value)
                  /\ todo' = Tail(todo)
                  /\ pc' = IF Len(todo) = 1 THEN "built" ELSE "build"
                  /\ UNCHANGED verbError
    /\ UNCHANGED <<inputVars, call, result, verb, force, confirmed, sdkInit,
                   netCalls, output, execResult, exitCode, rendered, parsed, history>>

\* text = format_json(config)
B_format_json ==
    /\ pc = "built"
    /\ rendered' = format_json(resolved, KeysOf(name))
    /\ pc' = "rendered"
    /\ UNCHANGED <<inputVars, config, call, result, verb, force, todo, resolved,
                   confirmed, sdkInit, netCalls, output, execResult, verbError,
                   exitCode, parsed, history>>

\* json.loads(text)
B_json_loads ==
    /\ pc = "rendered"
    /\ parsed' = json_loads(rendered)
    /\ pc' = "parsed"
    /\ UNCHANGED <<inputVars, config, call, result, verb, force, todo, resolved,
                   confirmed, sdkInit, netCalls, output, execResult, verbError,
                   exitCode, rendered, history>>

NextBuild ==
    \/ B_get_parameter
    \/ B_format_json
    \/ B_json_loads

SpecBuild == InitBuild /\ [][NextBuild]_vars

(***************************************************************************)
(* What a field's own sources yield: the command line, then the entry of   *)
(* the config file, then the environment, then the default.                *)
(***************************************************************************)
OwnValue(n, default) ==
    IF getattr(cli_args, n) # None THEN getattr(cli_args, n)
    ELSE IF fileState = "object" /\ n \in DOMAIN fileData /\ fileData[n] # None
    THEN fileData[n]
    ELSE IF env_name(n) \in DOMAIN environ THEN environ[env_name(n)]
    ELSE default

Built == pc \in {"built", "rendered", "parsed"}

(***************************************************************************)
(* C18. Each derived builder resolves every field with one get_parameter   *)
(* call and a field's value depends only on that field's own sources: the  *)
(* builder returns, for every field, what the field's command-line value,  *)
(* file entry, environment variable and default yield, and it raises only  *)
(* when a required field has none of them.  api_location and re_location   *)
(* are "global" and auth_id and icon_uri are None when nothing supplies    *)
(* them.                                                                   *)
(* One null under api_location or re_location in the file makes load_config*)
(* drop the whole file, and with it the entries of every other field.      *)
(***************************************************************************)
Cex_C18_FieldsIndependent ==
    /\ Built =>
          \A i \in 1..Len(BuilderScript(name)) :
             LET st == BuilderScript(name)[i]
             IN resolved[st.key] = OwnValue(st.name, st.default)
    /\ pc = "raised" =>
          \E i \in 1..Len(BuilderScript(name)) :
             LET st == BuilderScript(name)[i]
             IN st.required /\ OwnValue(st.name, st.default) = None

(***************************************************************************)
(* C19. Round trip: the dict a derived builder returned, rendered by       *)
(* format_json and parsed back by json.loads, has the same fields with the *)
(* same values.                                                            *)
(***************************************************************************)
Thm_C19_RoundTrip ==
    pc = "parsed" => parsed.ok /\ parsed.value = resolved

Wit_C19_RoundTrip ==
    /\ pc = "parsed"
    /\ name = "get_agent_config"
    /\ resolved["description"] = Str(<<"a", QUOTE, BSLASH, "b">>)
    /\ resolved["display_name"] = Str(<<"n", "u", "l", "l">>)
    /\ resolved["auth_id"] = None
    /\ parsed.ok

(***************************************************************************)
(* What a request of create_agent or update_agent carries for an agent     *)
(* field; Absent when the request does not carry the field.                *)
(***************************************************************************)
Sent(req, op, f) ==
    IF op = "registry.create_agent"
    THEN CASE f = "display_name" -> req.displayName
           [] f = "description" -> req.description
           [] f = "tool_description" -> req.tool_description
           [] f = "adk_deployment_id" -> req.reasoning_engine.id
           [] f = "auth_id" -> IF req.authorizations = <<>> THEN Absent
                               ELSE req.authorizations[1].id
           [] f = "icon_uri" -> req.icon
    ELSE IF MaskName(f) \notin DOMAIN req.data THEN Absent
    ELSE CASE f = "adk_deployment_id" -> req.data[MaskName(f)].id
           [] f = "auth_id" -> req.data[MaskName(f)][1].id
           [] OTHER -> req.data[MaskName(f)]

\* The request of `registry create` / `registry update`, once issued.
IsAgentRequest(i) ==
    /\ IsRequest(i)
    /\ netCalls[i].op \in {"registry.create_agent", "registry.update_agent"}

(***************************************************************************)
(* C21. For registry create and registry update, every field flag given on *)
(* the command line (--display-name, --description, --tool-description,    *)
(* --adk-deployment-id, --auth-id, --icon-uri) is the value sent for that  *)
(* field in the request, overriding the config file and the environment.   *)
(* --display-name is kept under display_name in the command line's dict,   *)
(* but get_agent_config resolves ars_display_name: the flag is never read  *)
(* and the request carries the display name of the config file.            *)
(***************************************************************************)
Cex_C21_FlagIsSent ==
    \A i \in Calls :
       IsAgentRequest(i) =>
          \A f \in AgentFlags :
             cli_args[f] # None => Sent(netCalls[i].payload, netCalls[i].op, f) = cli_args[f]

(***************************************************************************)
(* The location options of the typer CLI.                                  *)
(***************************************************************************)
\* The default of the typer.Option of a location flag.
FlagDefault(f) ==
    CASE f = "location" -> IF verb \in EngineVerbs THEN US_CENTRAL1 ELSE US
      [] OTHER -> GLOBAL

\* The flag was given: the command line's dict holds something else than the
\* default of the option.
LocationFlagGiven(f) == f \in DOMAIN cli_args /\ cli_args[f] # FlagDefault(f)

\* The config file sets the field.
FileSets(f) == fileState = "object" /\ f \in DOMAIN fileData /\ fileData[f] # None

\* The config file decides the field: it sets it and the flag is not given.
FileDecides(f) == FileSets(f) /\ ~LocationFlagGiven(f)

\* The field that names the location of the URL of an operation.
UrlLocationField(op) == IF op \in RegistryOps THEN "api_location" ELSE "location"

(***************************************************************************)
(* C22. For every verb of the typer CLI, when a location flag              *)
(* (--api-location, --re-location, --location) is not given on the command *)
(* line and the config file sets that field, the request is built with the *)
(* config-file value, not with the flag's built-in default.                *)
(* A flag that is not given leaves the default of its typer.Option in the  *)
(* command line's dict, where get_parameter finds it before it looks at    *)
(* the config file: the request is built with "global", "us" or            *)
(* "us-central1".                                                          *)
(***************************************************************************)
Cex_C22_FileLocationBeatsDefault ==
    verb \in TyperVerbs =>
       /\ \A i \in Calls :
             (IsRequest(i) /\ FileDecides(UrlLocationField(netCalls[i].op))) =>
                netCalls[i].payload.location = fileData[UrlLocationField(netCalls[i].op)]
       /\ \A i \in Calls :
             (IsRequest(i) /\ netCalls[i].op = "registry.create_agent"
                /\ FileDecides("re_location")) =>
                netCalls[i].payload.reasoning_engine.location = fileData["re_location"]
       /\ (verb \in EngineVerbs /\ sdkInit /\ FileDecides("location")) =>
             resolved["location"] = fileData["location"]

(***************************************************************************)
(* One deployment-registry service on its own: the AgentEngineService of   *)
(* the package, or the module agent_engine_manager of the legacy clients.  *)
(* initialize and the four operations are called in any order, each with   *)
(* any argument and any behaviour of the SDK, up to MaxCalls calls.        *)
(***************************************************************************)
MaxCalls == 4

\* The project id initialize is called with.
EngineProjects == {None, Str(<<>>), Str(<<"p">>)}

\* The service is the module agent_engine_manager.
Legacy == resolver # "ConfigManager"

InitEngine ==
    /\ resolver \in {"ConfigManager", "engine_client"}
    /\ name = ""
    /\ cli_args = EmptyDict
    /\ fileState = "missing" /\ fileEntry = Absent
    /\ environ = EmptyDict /\ fileData = EmptyDict
    /\ config = Unloaded
    /\ pc = "engine" /\ call = NoCall /\ result = NoResult
    /\ VerbIdle

\* One call of the service ended.
Ended(op, kind, exc, sdk) == [op |-> op, kind |-> kind, exc |-> exc, sdk |-> sdk]

\* service.initialize(project_id, location) / initialize_vertex_ai(...)
E_initialize ==
    /\ pc = "engine" /\ Len(history) < MaxCalls
    /\ \E project_id \in EngineProjects, ok \in BOOLEAN :
         LET r == initialize(Legacy, project_id, ok)
         IN /\ sdkInit' = IF r.changed THEN r.initialized ELSE sdkInit
            /\ verbError' = r.exc
            /\ history' = Append(history,
                                 Ended("engine.initialize",
                                       IF r.exc = NoError THEN "return" ELSE "raise",
                                       r.exc, 0))
    /\ UNCHANGED <<inputVars, config, pc, call, result, verb, force, todo, resolved,
                   confirmed, netCalls, output, execResult, exitCode, rendered, parsed>>

\* service.list_agents() / get_agent() / list_agents_by_display_name() /
\* delete_agent()
E_call ==
    /\ pc = "engine" /\ Len(history) < MaxCalls
    /\ \E op \in EngineOps, ok \in BOOLEAN :
         LET o == IF Legacy THEN ManagerCall(op, sdkInit, ok)
                  ELSE EngineCall(op, sdkInit, ok)
         IN /\ netCalls' = netCalls \o o.calls
            /\ execResult' = o.value
            /\ verbError' = o.exc
            /\ history' = Append(history, Ended(op, o.kind, o.exc, Len(o.calls)))
    /\ UNCHANGED <<inputVars, config, pc, call, result, verb, force, todo, resolved,
                   confirmed, sdkInit, output, exitCode, rendered, parsed>>

NextEngine == E_initialize \/ E_call

SpecEngine == InitEngine /\ [][NextEngine]_vars

Past == 1..Len(history)
IsOperation(i) == history[i].op \in EngineOps
InitReturnedAt(j) == history[j].op = "engine.initialize" /\ history[j].kind = "return"
InitRaisedAt(j) == history[j].op = "engine.initialize" /\ history[j].kind = "raise"
InitReturnedBefore(i) == \E j \in 1..(i - 1) : InitReturnedAt(j)

\* What an operation raises on a service that is not initialized.
NotInitialized == IF Legacy THEN "RuntimeError" ELSE "InitializationError"

RefusedAt(i) ==
    /\ history[i].kind = "raise" /\ history[i].exc.type = NotInitialized
    /\ history[i].sdk = 0

(***************************************************************************)
(* C23. On the deployment-registry service, list_agents, get_agent,        *)
(* list_agents_by_display_name and delete_agent call the SDK only if an    *)
(* earlier initialize call on the same service succeeded; called before    *)
(* any successful initialize, each raises InitializationError              *)
(* (RuntimeError in the legacy module) and makes no SDK call.              *)
(***************************************************************************)
Thm_C23_SdkNeedsInitialize ==
    \A i \in Past :
       IsOperation(i) =>
          /\ history[i].sdk > 0 => InitReturnedBefore(i)
          /\ ~InitReturnedBefore(i) => RefusedAt(i)

\* An operation was refused, initialize then succeeded, and an operation
\* called the SDK.
Wit_C23_SdkNeedsInitialize ==
    \E i, j, k \in Past :
       /\ i < j /\ j < k
       /\ IsOperation(i) /\ RefusedAt(i)
       /\ InitReturnedAt(j)
       /\ IsOperation(k) /\ history[k].sdk = 1 /\ history[k].op = "engine.delete_agent"

(***************************************************************************)
(* C24. After any initialize call that raises (empty project id, or a      *)
(* failure of the SDK init), in any sequence of initialize calls, every    *)
(* list/get/delete operation raises InitializationError until a later      *)
(* initialize call succeeds, also when an earlier initialize call had      *)
(* succeeded.                                                              *)
(* A failure of the SDK init resets the flag.  An empty project id raises  *)
(* before the flag is touched: after a successful initialize it leaves the *)
(* service initialized and the operations go on calling the SDK.           *)
(***************************************************************************)
Cex_C24_FailedInitializeBlocks ==
    \A i \in Past :
       IsOperation(i) =>
          ((\E j \in 1..(i - 1) :
               /\ InitRaisedAt(j)
               /\ \A k \in (j + 1)..(i - 1) : ~InitReturnedAt(k))
           => RefusedAt(i))

(***************************************************************************)
(* C25. In AgentRegistryService.update_agent the updateMask lists exactly  *)
(* the fields whose argument is not None, in the fixed order display name, *)
(* description, tool description, deployment id, authorization, icon, and  *)
(* the request body has exactly one entry per mask entry; a field passed   *)
(* as None appears in neither the mask nor the body.                       *)
(***************************************************************************)
\* The PATCH requests that update_agent sent.
IsPatch(i) ==
    /\ IsRequest(i)
    /\ netCalls[i].op = "registry.update_agent"
    /\ netCalls[i].method = "PATCH"

\* The fields of the call that are not None, in the fixed order.
FieldsNotNone ==
    SelectSeq(UpdateOrder, LAMBDA f : BindArgs(name, resolved)[f] # None)

MaskOfFields(fields) == [i \in 1..Len(fields) |-> MaskName(fields[i])]

Thm_C25_MaskIsFieldsNotNone ==
    (name = "registry.update_agent") =>
       \A i \in Calls :
          IsPatch(i) =>
             LET req == netCalls[i].payload
             IN  /\ req.updateMask = MaskOfFields(FieldsNotNone)
                 /\ DOMAIN req.data = {req.updateMask[k] : k \in 1..Len(req.updateMask)}
                 /\ Cardinality(DOMAIN req.data) = Len(req.updateMask)
                 /\ \A k \in 1..Len(UpdateOrder) :
                       resolved[UpdateOrder[k]] = None =>
                          /\ MaskName(UpdateOrder[k]) \notin DOMAIN req.data
                          /\ \A m \in 1..Len(req.updateMask) :
                                req.updateMask[m] # MaskName(UpdateOrder[k])

\* A PATCH went out for a call with an empty display name, a None
\* description and an authorization id: the mask holds the first and the
\* last and not the second.
Wit_C25_MaskIsFieldsNotNone ==
    /\ name = "registry.update_agent"
    /\ resolved.display_name = Str(<<>>)
    /\ resolved.description = None
    /\ resolved.auth_id = Str(<<"v">>)
    /\ \E i \in Calls :
          /\ IsPatch(i)
          /\ Len(netCalls[i].payload.updateMask) >= 2
          /\ netCalls[i].payload.updateMask[1] = "displayName"

(***************************************************************************)
(* C26. AgentRegistryService.update_agent called with all six optional     *)
(* fields None raises ServiceError ("No fields to update") and issues no   *)
(* PATCH request; called with at least one field not None it issues        *)
(* exactly one PATCH request.                                              *)
(* update_agent fetches the headers before it looks at the fields, so this *)
(* holds once the access token has been obtained.  Without a token either  *)
(* call raises AuthenticationError and sends nothing.                      *)
(***************************************************************************)
UpdateDone == name = "registry.update_agent" /\ pc \in {"returned", "raised"}

AllFieldsNone == \A f \in UpdateFields : BindArgs(name, resolved)[f] = None

Patches == {i \in Calls : IsPatch(i)}

\* "No fields to update": the ServiceError that carries no status, body or
\* decoder message.
NoFieldsError == pc = "raised" /\ verbError = Exc("ServiceError", {})

\* _get_headers returned: the credentials yielded a token that is truthy.
TokenObtained ==
    \E i \in Calls : netCalls[i].kind = "token" /\ get_headers(netCalls[i].outcome).ok

\* The statement as it reads, for every token outcome.
Cex_C26_NoFieldsOrOnePatch ==
    UpdateDone =>
       IF AllFieldsNone
       THEN NoFieldsError /\ Patches = {}
       ELSE Cardinality(Patches) = 1

Thm_C26_NoFieldsOrOnePatchGivenToken ==
    UpdateDone =>
       IF TokenObtained
       THEN IF AllFieldsNone
            THEN NoFieldsError /\ Patches = {}
            ELSE Cardinality(Patches) = 1
       ELSE /\ pc = "raised" /\ verbError.type = "AuthenticationError"
            /\ \A i \in Calls : ~IsRequest(i)

\* Both cases happen with a token: all None ends in the error, and a call
\* with only an empty display name has sent its one PATCH.
Wit_C26_NoFieldsError ==
    UpdateDone /\ TokenObtained /\ AllFieldsNone /\ NoFieldsError

Wit_C26_NoFieldsOrOnePatchGivenToken ==
    /\ UpdateDone /\ TokenObtained
    /\ resolved.display_name = Str(<<>>)
    /\ \A f \in UpdateFields \ {"display_name"} : resolved[f] = None
    /\ Cardinality(Patches) = 1

(***************************************************************************)
(* C27. When auth create or auth refresh is invoked without an             *)
(* authorization id, an id is generated before the request is built, so    *)
(* the create request's resource name and its authorizationId query        *)
(* parameter never carry a null or absent id.                              *)
(* Nothing generates an id: the command passes the None of the command     *)
(* line on, and create_authorization formats it into the name and puts it  *)
(* in the query.                                                           *)
(***************************************************************************)
IsCreateAuthorization(i) ==
    IsRequest(i) /\ netCalls[i].op = "auth.create_authorization"

Cex_C27_CreateCarriesAnId ==
    verb \in {"auth_create", "auth_refresh"} =>
       \A i \in Calls :
          IsCreateAuthorization(i) =>
             /\ netCalls[i].payload.authorizationId \notin {None, Absent}
             /\ netCalls[i].payload.name.id \notin {None, Absent}

\* The same for the invocations that name the id.
CreateCarriesTheGivenId ==
    verb \in {"auth_create", "auth_refresh"} =>
       \A i \in Calls :
          IsCreateAuthorization(i) =>
             LET given == IF verb = "auth_refresh" THEN cli_args.new_auth_id
                          ELSE cli_args.authorization_id
             IN  given # None =>
                    /\ netCalls[i].payload.authorizationId = given
                    /\ netCalls[i].payload.name.id = given

(***************************************************************************)
(* C28. In create_agent and update_agent, the authorization resource path  *)
(* placed in the request is built with re_location (the location of the    *)
(* Reasoning Engine and Authorizations), the same location used for the    *)
(* reasoning-engine path, in both the legacy and the refactored registry   *)
(* service.                                                                *)
(* Only the legacy update_agent does so.  The legacy create_agent and both *)
(* operations of AgentRegistryService build the path with api_location.    *)
(***************************************************************************)
CreateOrUpdate == {"registry.create_agent", "registry.update_agent",
                   "ars.create_agent", "ars.update_agent"}

\* The request that carries the body of create_agent / update_agent.
IsBodyRequest(i) ==
    /\ IsRequest(i)
    /\ netCalls[i].op \in CreateOrUpdate
    /\ netCalls[i].method \in {"POST", "PATCH"}

\* The authorization paths the call built into the request `req` of `op`.
AuthorizationPaths(op, req) ==
    CASE op \in {"registry.create_agent", "ars.create_agent"} ->
            {req.authorizations[k] : k \in 1..Len(req.authorizations)}
      [] op = "registry.update_agent" ->
            IF MaskName("auth_id") \in DOMAIN req.data
            THEN {req.data[MaskName("auth_id")][k] :
                     k \in 1..Len(req.data[MaskName("auth_id")])}
            ELSE {}
      [] op = "ars.update_agent" ->
            IF Truthy(resolved.auth_id)
            THEN {req.authorizations[k] : k \in 1..Len(req.authorizations)}
            ELSE {}

AuthorizationPathUsesReLocation(ops) ==
    name \in ops =>
       \A i \in Calls :
          IsBodyRequest(i) =>
             \A p \in AuthorizationPaths(netCalls[i].op, netCalls[i].payload) :
                p.location = BindArgs(name, resolved).re_location

Cex_C28_AuthorizationPathUsesReLocation ==
    AuthorizationPathUsesReLocation(CreateOrUpdate)

\* The legacy update_agent alone.
LegacyUpdateUsesReLocation == AuthorizationPathUsesReLocation({"ars.update_agent"})

\* What the other three do.
OthersUseApiLocation ==
    name \in CreateOrUpdate \ {"ars.update_agent"} =>
       \A i \in Calls :
          IsBodyRequest(i) =>
             \A p \in AuthorizationPaths(netCalls[i].op, netCalls[i].payload) :
                p.location = BindArgs(name, resolved).api_location

(***************************************************************************)
(* C29. In every delete verb of the typer CLI, the message                 *)
(* '... deleted successfully.' is printed only after the delete call has   *)
(* returned successfully; when parameter resolution, authentication or the *)
(* delete call fails, the message is not printed.                          *)
(***************************************************************************)
DeleteVerbs == {"registry_delete", "engine_delete", "auth_delete"}

SaidDeleted == \E k \in 1..Len(output) : output[k] = "deleted successfully."

\* The call of the delete operation that went out, and whether the
\* operation returned from it: the SDK did not raise; the server answered
\* 204, or a status below 400 with a body that parses.
IsDeleteCall(i) ==
    /\ netCalls[i].kind \in {"request", "sdk"}
    /\ netCalls[i].op \in {"registry.delete_agent", "engine.delete_agent",
                           "auth.delete_authorization"}

DeleteSucceeded(i) ==
    IF netCalls[i].kind = "sdk" THEN netCalls[i].resp.ok
    ELSE /\ netCalls[i].resp # NoResponse
         /\ \/ netCalls[i].resp.status = 204
            \/ netCalls[i].resp.status < 400 /\ netCalls[i].resp.body # "not_json"

Thm_C29_DeletedOnlyAfterDelete ==
    verb \in DeleteVerbs =>
       /\ SaidDeleted =>
             /\ verbError = NoError
             /\ confirmed \notin {"no", "abort"}
             /\ \E i \in Calls : IsDeleteCall(i) /\ DeleteSucceeded(i)
       /\ (verbError # NoError \/ exitCode = 1) => ~SaidDeleted

\* `auth delete` was confirmed, the server answered 204, the message is out.
Wit_C29_DeletedOnlyAfterDelete ==
    /\ verb = "auth_delete" /\ confirmed = "yes"
    /\ SaidDeleted /\ exitCode = 0
    /\ \E i \in Calls : IsDeleteCall(i) /\ netCalls[i].resp.status = 204

\* The delete call went out and failed: the verb ended with status 1 and
\* without the message.
Wit_C29_FailedDelete ==
    /\ verb \in DeleteVerbs /\ exitCode = 1 /\ ~SaidDeleted
    /\ \E i \in Calls : IsDeleteCall(i) /\ ~DeleteSucceeded(i)

(***************************************************************************)
(* C30. For each of the three resolvers in the repository                  *)
(* (ConfigManager.get_parameter, as_registry_client.get_parameter,         *)
(* agent_engine_client.get_parameter), a call with required=True that      *)
(* returns normally returns a non-null value, for every content of the     *)
(* command line, config file (null entries included), environment, prompt  *)
(* answer and default.                                                     *)
(* as_registry_client.get_parameter returns config[name] as soon as the    *)
(* name is in the config file, null included, before it looks at           *)
(* `required`.                                                             *)
(***************************************************************************)
RequiredReturnsValue(resolvers) ==
    (Done /\ resolver \in resolvers /\ call.required /\ result.kind = "return") =>
        result.value # None

Cex_C30_RequiredReturnsValue == RequiredReturnsValue(Resolvers)

\* The other two resolvers.
RequiredReturnsValueElsewhere ==
    RequiredReturnsValue({"ConfigManager", "engine_client"})

====
